---- MODULE Spec2Model ----
(***************************************************************************)
(* A model of CoC7ActorImporter (module/apps/actor-importer.js): the field *)
(* extractor `check`, the parseCharacter pipeline with its sub-parsers,    *)
(* the edition converter and the record assembly.                          *)
(*                                                                         *)
(* Strings are sequences of one-character strings.  The pattern set of     *)
(* actor-importer-regexp.js is not part of the sources at hand; its        *)
(* templates are modelled from the design document as sequences of         *)
(* literal words and repeated character classes, matched greedily with     *)
(* backtracking, leftmost match first, as a RegExp engine does.            *)
(***************************************************************************)
EXTENDS Integers, Sequences, FiniteSets, TLC

\* ------------------------------------------------------------------------
\* Characters and strings
\* ------------------------------------------------------------------------

Digit == {"0", "1", "2", "3", "4", "5", "6", "7", "8", "9"}
Lower == {"a", "b", "c", "d", "e", "f", "g", "h", "i", "j", "k", "l", "m",
          "n", "o", "p", "q", "r", "s", "t", "u", "v", "w", "x", "y", "z"}
Upper == {"A", "B", "C", "D", "E", "F", "G", "H", "I", "J", "K", "L", "M",
          "N", "O", "P", "Q", "R", "S", "T", "U", "V", "W", "X", "Y", "Z"}
Letter == Lower \cup Upper
\* \s of a regular expression, and what String.prototype.trim removes
WhiteSpace == {" ", "\n", "\r", "\t"}

Max(a, b) == IF a >= b THEN a ELSE b
Min(a, b) == IF a <= b THEN a ELSE b

\* the empty object {} / a record of named values
EmptyObject == [k \in {} |-> 0]
Put(o, k, v) == [x \in DOMAIN o \cup {k} |-> IF x = k THEN v ELSE o[x]]
Has(o, k) == k \in DOMAIN o

RECURSIVE TrimStart(_)
TrimStart(s) ==
  IF s # << >> /\ Head(s) \in WhiteSpace THEN TrimStart(Tail(s)) ELSE s

RECURSIVE TrimEnd(_)
TrimEnd(s) ==
  IF s # << >> /\ s[Len(s)] \in WhiteSpace
  THEN TrimEnd(SubSeq(s, 1, Len(s) - 1))
  ELSE s

\* String.prototype.trim
Trim(s) == TrimEnd(TrimStart(s))

\* the least member of a set of positions, 0 for the empty set
Least(S) == IF S = {} THEN 0 ELSE CHOOSE i \in S : \A j \in S : i <= j

\* String.prototype.indexOf, 1-based; 0 when m does not occur in s
IndexOf(s, m) ==
  IF m = << >> THEN 1
  ELSE Least({i \in 1..(Len(s) - Len(m) + 1) : SubSeq(s, i, i + Len(m) - 1) = m})

\* s with the n characters at i replaced by r; s itself when i is 0
Spliced(s, i, n, r) ==
  IF i = 0 THEN s ELSE SubSeq(s, 1, i - 1) \o r \o SubSeq(s, i + n, Len(s))

\* String.prototype.replace(m, r) with a string pattern: the first textual
\* occurrence of m is replaced; an empty m inserts r in front
ReplaceFirst(s, m, r) == Spliced(s, IndexOf(s, m), Len(m), r)

\* String.prototype.replace(/[cls]/g, c): every character of cls replaced
ReplaceChars(s, cls, c) == [i \in DOMAIN s |-> IF s[i] \in cls THEN c ELSE s[i]]

DigitVal(c) ==
  CASE c = "0" -> 0 [] c = "1" -> 1 [] c = "2" -> 2 [] c = "3" -> 3
    [] c = "4" -> 4 [] c = "5" -> 5 [] c = "6" -> 6 [] c = "7" -> 7
    [] c = "8" -> 8 [] c = "9" -> 9

RECURSIVE Decimal(_)
Decimal(s) ==
  IF s = << >> THEN 0
  ELSE 10 * Decimal(SubSeq(s, 1, Len(s) - 1)) + DigitVal(s[Len(s)])

\* the digits u as a number of the given sign; NaN when u is not digits only
Digits(u, sign) ==
  IF u # << >> /\ \A i \in 1..Len(u) : u[i] \in Digit
  THEN [nan |-> FALSE, n |-> sign * Decimal(u)]
  ELSE [nan |-> TRUE, n |-> 0]

\* Number(t) of a trimmed string
Signed(t) ==
  IF t = << >> THEN [nan |-> FALSE, n |-> 0]
  ELSE Digits(IF Head(t) \in {"+", "-"} THEN Tail(t) ELSE t,
              IF Head(t) = "-" THEN 0 - 1 ELSE 1)

\* Number(string): white space is trimmed, the empty string is 0, an optional
\* sign and digits give the integer, anything else is NaN
ToNumber(s) == Signed(Trim(s))

\* values held by the parsed record: a string or a number
Str(s) == [t |-> "s", s |-> s, n |-> 0]
Num(n) == [t |-> "n", s |-> << >>, n |-> n]

\* ------------------------------------------------------------------------
\* Regular expressions
\* ------------------------------------------------------------------------

\* A template is a list of alternatives, each a list of parts.  A part is a
\* literal word or a repeated character class; it may carry the name of a
\* capture group, and an optional part that matches nothing leaves its group
\* undefined.
Lit(w) == [kind |-> "lit", w |-> w, cls |-> {}, min |-> 0, many |-> FALSE,
           grp |-> "", opt |-> FALSE]
Rep(cls, min, many) == [kind |-> "cls", w |-> << >>, cls |-> cls, min |-> min,
                        many |-> many, grp |-> "", opt |-> FALSE]
Star(cls) == Rep(cls, 0, TRUE)
Plus(cls) == Rep(cls, 1, TRUE)
Maybe(cls) == Rep(cls, 0, FALSE)
Group(name, part) == [part EXCEPT !.grp = name]
Optional(part) == [part EXCEPT !.opt = TRUE, !.min = 0]
\* $: matches only at the end of the subject
EndOfText == [kind |-> "end", w |-> << >>, cls |-> {}, min |-> 0, many |-> FALSE,
              grp |-> "", opt |-> FALSE]

Undefined == [def |-> FALSE, s |-> << >>]
Defined(s) == [def |-> TRUE, s |-> s]

RECURSIVE RunLen(_, _, _)
RunLen(cls, s, i) ==
  IF i > Len(s) \/ s[i] \notin cls THEN 0 ELSE 1 + RunLen(cls, s, i + 1)

LitAt(w, s, i) == i + Len(w) - 1 <= Len(s) /\ SubSeq(s, i, i + Len(w) - 1) = w

NoMatch == [ok |-> FALSE, end |-> 0, groups |-> EmptyObject]

RECURSIVE MatchFrom(_, _, _, _, _)
RECURSIVE TryLen(_, _, _, _, _, _, _)
RECURSIVE Backtrack(_, _, _, _, _, _, _, _)

\* the captures g, with the group of part p set to the n characters at i
Captured(p, g, s, i, n) ==
  IF p.grp = "" THEN g
  ELSE IF n = 0 /\ (p.opt \/ p.kind = "lit") THEN Put(g, p.grp, Undefined)
  ELSE Put(g, p.grp, Defined(SubSeq(s, i, i + n - 1)))

\* part k of parts consumes n characters at i, then fewer down to lo, until
\* the rest of the template matches (greedy, with backtracking)
TryLen(parts, k, s, i, g, n, lo) ==
  IF n < lo THEN NoMatch
  ELSE Backtrack(parts, k, s, i, g, n, lo,
                 MatchFrom(parts, k + 1, s, i + n, Captured(parts[k], g, s, i, n)))

\* r is the match of the rest after n characters: it stands, or part k gives
\* a character back
Backtrack(parts, k, s, i, g, n, lo, r) ==
  IF r.ok THEN r
  ELSE IF parts[k].kind = "lit" /\ n > 0 /\ parts[k].opt
  THEN TryLen(parts, k, s, i, g, 0, 0)
  ELSE IF parts[k].kind = "lit" THEN NoMatch
  ELSE TryLen(parts, k, s, i, g, n - 1, lo)

MatchFrom(parts, k, s, i, g) ==
  IF k > Len(parts) THEN [ok |-> TRUE, end |-> i, groups |-> g]
  ELSE IF parts[k].kind = "end"
  THEN IF i = Len(s) + 1 THEN MatchFrom(parts, k + 1, s, i, g) ELSE NoMatch
  ELSE IF parts[k].kind = "lit"
  THEN IF LitAt(parts[k].w, s, i) THEN TryLen(parts, k, s, i, g, Len(parts[k].w), 0)
       ELSE IF parts[k].opt THEN TryLen(parts, k, s, i, g, 0, 0)
       ELSE NoMatch
  ELSE TryLen(parts, k, s, i, g,
              IF parts[k].many THEN RunLen(parts[k].cls, s, i)
              ELSE Min(RunLen(parts[k].cls, s, i), 1),
              parts[k].min)

\* the names of the capture groups of a template
GroupNames(alts) ==
  UNION {{alts[a][k].grp : k \in DOMAIN alts[a]} : a \in DOMAIN alts} \ {""}

RECURSIVE MatchAlts(_, _, _, _)
RECURSIVE NextAlt(_, _, _, _, _)
MatchAlts(alts, a, s, i) ==
  IF a > Len(alts) THEN NoMatch
  ELSE NextAlt(alts, a, s, i, MatchFrom(alts[a], 1, s, i, EmptyObject))

\* r is the match of alternative a: it stands, or the next one is tried
NextAlt(alts, a, s, i, r) == IF r.ok THEN r ELSE MatchAlts(alts, a + 1, s, i)

\* the result of exec for the match r at i: every group of the expression is
\* a key of groups
MatchAt(re, s, i, r) ==
  [ok |-> TRUE, index |-> i - 1, source |-> SubSeq(s, i, r.end - 1),
   groups |-> [n \in GroupNames(re.alts) |->
                 IF n \in DOMAIN r.groups THEN r.groups[n] ELSE Undefined]]

\* exec at the start i; null when i is 0
ExecAt(re, s, i) ==
  IF i = 0 THEN [ok |-> FALSE, index |-> 0, source |-> << >>, groups |-> EmptyObject]
  ELSE MatchAt(re, s, i, MatchAlts(re.alts, 1, s, i))

\* RegExp.prototype.exec: the leftmost match; index is 0-based as in JS
Exec(re, s) ==
  ExecAt(re, s, Least({i \in (IF re.anchored THEN {1} ELSE 1..(Len(s) + 1)) :
                         MatchAlts(re.alts, 1, s, i).ok}))

RegExp(alts) == [alts |-> alts, anchored |-> FALSE]
Anchored(alts) == [alts |-> alts, anchored |-> TRUE]

\* ------------------------------------------------------------------------
\* The pattern set (CoC7ActorImporterRegExp): lexical keys and templates
\* ------------------------------------------------------------------------

Languages == {"en", "de"}

\* the order in which parseCharacter scans the core fields
CoreKeys == <<"str", "con", "siz", "int", "pow", "dex", "app", "edu", "san", "hp", "mp">>
CoreKeySet == {CoreKeys[i] : i \in DOMAIN CoreKeys}

Label(key) ==
  CASE key = "str" -> <<"S", "T", "R">>
    [] key = "con" -> <<"C", "O", "N">>
    [] key = "siz" -> <<"S", "I", "Z">>
    [] key = "int" -> <<"I", "N", "T">>
    [] key = "pow" -> <<"P", "O", "W">>
    [] key = "dex" -> <<"D", "E", "X">>
    [] key = "app" -> <<"A", "P", "P">>
    [] key = "edu" -> <<"E", "D", "U">>
    [] key = "san" -> <<"S", "A", "N">>
    [] key = "hp" -> <<"H", "P">>
    [] key = "mp" -> <<"M", "P">>
    [] key = "mov" -> <<"M", "o", "v", "e">>
    [] key = "lck" -> <<"L", "u", "c", "k">>
    [] key = "db" -> <<"D", "B">>
    [] key = "build" -> <<"B", "u", "i", "l", "d">>
    [] key = "armor" -> <<"A", "r", "m", "o", "r">>
    [] key = "sanLoss" -> <<"S", "a", "n", "L", "o", "s", "s">>
    [] key = "attacksPerRound" -> <<"A", "t", "t", "a", "c", "k", "s">>
    [] key = "age" -> <<"a", "g", "e">>
    [] key = "occupation" -> <<"O", "c", "c", "u", "p", "a", "t", "i", "o", "n", ":">>


\* the words of the language
Word ==
  [none |-> <<"n", "o", "n", "e">>,
   damage |-> <<"d", "a", "m", "a", "g", "e">>,
   dodge |-> <<"D", "o", "d", "g", "e">>,
   combat |-> <<"C", "o", "m", "b", "a", "t">>,
   skills |-> <<"S", "k", "i", "l", "l", "s">>,
   languages |-> <<"L", "a", "n", "g", "u", "a", "g", "e", "s">>,
   spells |-> <<"S", "p", "e", "l", "l", "s">>,
   brawl |-> <<"B", "r", "a", "w", "l">>,
   pistol |-> <<"P", "i", "s", "t", "o", "l">>,
   rifle |-> <<"R", "i", "f", "l", "e">>,
   knife |-> <<"K", "n", "i", "f", "e">>,
   smg |-> <<"S", "M", "G">>,
   gatling |-> <<"G", "a", "t", "l", "i", "n", "g">>,
   bow |-> <<"B", "o", "w">>,
   db |-> <<"D", "B">>,
   half |-> <<"h", "a", "l", "f">>]

NameChars == Letter \cup {" ", "."}
NoneChars == {"n", "o", "e"}
DiceChars == Digit \cup {"D", "d", "W", "w"}
DamageChars == DiceChars \cup {"+", "-", "/", "B", "h", "a", "l", "f"}

\* a numeric field: its label, then digits or a dash
NumberTemplate(key) ==
  RegExp(<< <<Lit(Label(key)), Star(WhiteSpace), Group(key, Plus(Digit))>>,
            <<Lit(Label(key)), Star(WhiteSpace), Group(key, Lit(<<"-">>))>> >>)

\* a text field: its label, then a value over cls
TextTemplate(key, cls) ==
  RegExp(<< <<Lit(Label(key)), Star(WhiteSpace), Group(key, Plus(cls))>> >>)

\* a section header: the word at the start of a line, then a colon or the
\* end of the line
SectionHeader(w) == <<Lit(<<"\n">>), Star({" "}), Lit(w), Rep({":", "\n"}, 1, FALSE)>>
Words(ws) == RegExp([i \in DOMAIN ws |-> <<Lit(ws[i])>>])

\* the lexical keys that are expressions (the others are diceShort and
\* newCombatHeader)
KeyNames == {"dbNone", "armorNone", "attacksPerRoundNone", "sectionCombats",
             "sectionSkills", "sectionLangauges", "sectionSpells", "handgun",
             "rifle", "smb", "machineGun", "launched", "fulldb", "halfdb"}

\* CoC7ActorImporterRegExp.getKeys(lang): the lexical tokens of a language
\* (as expression sources), its dice letter ("" when it has none) and the
\* canonical combat header
getKeys(l) ==
  [dbNone |-> Words(<<Word.none>>),
   armorNone |-> Words(<<Word.none>>),
   attacksPerRoundNone |-> Words(<<Word.none>>),
   sectionCombats |-> RegExp(<<SectionHeader(Word.combat)>>),
   sectionSkills |-> RegExp(<<SectionHeader(Word.skills)>>),
   sectionLangauges |-> RegExp(<<SectionHeader(Word.languages)>>),
   sectionSpells |-> RegExp(<<SectionHeader(Word.spells)>>),
   handgun |-> Words(<<Word.pistol>>),
   rifle |-> Words(<<Word.rifle>>),
   smb |-> Words(<<Word.smg>>),
   machineGun |-> Words(<<Word.gatling>>),
   launched |-> Words(<<Word.bow>>),
   fulldb |-> Words(<<Word.db>>),
   halfdb |-> Words(<<Word.half>>),
   diceShort |-> IF l = "de" THEN "W" ELSE "",
   newCombatHeader |-> <<"\n">> \o Word.combat \o <<"\n">>]

\* a lexical key as it is written into a larger expression
WordOf(key) == key.alts[1][1].w

TemplateNames == CoreKeySet \cup
  {"mov", "lck", "db", "build", "armor", "sanLoss", "attacksPerRound", "name",
   "age", "occupation", "guessStartCombat", "sections", "weaponDodge",
   "weapon", "skill"}

\* CoC7ActorImporterRegExp.getRegularExpressions(lang): the field templates
\* of a language
getRegularExpressions(l) ==
  [key \in TemplateNames |->
     CASE key \in CoreKeySet \cup {"mov", "lck"} -> NumberTemplate(key)
       [] key = "db" -> TextTemplate(key, DiceChars \cup NoneChars \cup {"+", "-"})
       [] key = "build" -> TextTemplate(key, Digit \cup {"-"})
       [] key = "armor" -> TextTemplate(key, Digit \cup NoneChars)
       [] key = "sanLoss" -> TextTemplate(key, DiceChars \cup {"/"})
       [] key = "attacksPerRound" -> TextTemplate(key, Digit \cup NoneChars)
       [] key = "name" ->
            Anchored(<< <<Group("name", Plus(NameChars)), Plus({",", " ", "\n"})>> >>)
       [] key = "age" ->
            RegExp(<< <<Lit(Label(key)), Plus(WhiteSpace), Group("age", Plus(Digit)),
                        Star({",", " "})>> >>)
       [] key = "occupation" -> TextTemplate(key, NameChars)
       [] key = "guessStartCombat" -> RegExp(<< <<Lit(<<"\n">>), Lit(Word.brawl)>> >>)
       [] key = "sections" ->
            RegExp(<<SectionHeader(Word.combat), SectionHeader(Word.skills),
                     SectionHeader(Word.languages), SectionHeader(Word.spells)>>)
       [] key = "weaponDodge" ->
            RegExp(<< <<Group("name", Lit(Word.dodge)), Star(WhiteSpace),
                        Group("percentage", Plus(Digit)), Maybe({"%"})>> >>)
       [] key = "weapon" ->
            RegExp(<< <<Group("name", Plus(Letter \cup {" "})),
                        Optional(Group("percentage", Plus(Digit))), Maybe({"%"}),
                        Star({",", " "}), Lit(Word.damage), Star({" "}),
                        Group("damage", Plus(DamageChars))>>,
                      <<Group("name", Plus(Letter \cup {" "})),
                        Optional(Group("percentage", Plus(Digit))), Maybe({"%"})>> >>)
       [] key = "skill" ->
            RegExp(<< <<Group("name", Plus(Letter \cup {" "})),
                        Group("percentage", Plus(Digit)), Maybe({"%"})>> >>)]

\* getRegEx: a RegExp object is returned as it is, a source is compiled
getRegEx(regex) == [alts |-> regex.alts, anchored |-> regex.anchored]

\* ------------------------------------------------------------------------
\* State
\* ------------------------------------------------------------------------

VARIABLES
  input,        \* inputs.text of the createActor call being served
  lang,         \* inputs.lang
  keys,         \* this.keys, the lexical keys of the language
  regEx,        \* this.regEx, the field templates of the language
  mode,         \* inputs.convertFrom6E
  text,         \* this.text, the working buffer
  parsed,       \* this.parsed, the record
  pc,           \* the statement the importer is at
  run,          \* the number of the parseCharacter invocation on this importer
  pl,           \* parseCharacter's locals: min, the core field index, the
                \* value of the pending condition, sections and its index
  cb,           \* processCombat's locals: text, lastPercent, maxLoops, weapon, dodge
  sk,           \* processSkills' locals: text, key, maxLoops, skill
  warnings,     \* the messages given to ui.notifications.warn
  written,      \* the record keys assigned by the running invocation
  matched,      \* the pattern keys that matched in the running invocation
  base,         \* the record as the running invocation found it
  rerun,        \* whether the invocation reads the notes of the one before
  call,         \* the last direct call of check: what it was given and gave
  game,         \* the host's item directory, compendium packs and folders
  itemLocations,\* this.itemLocations, the sources guessItem searches
  out,          \* what createActor built: the character as parsed, the items,
                \* this.weaponSkills, the actor's items with their links, the
                \* number of conversions applied
  imports       \* the createEntity calls of several importers on one host:
                \* the statement each is at, what its folder lookup found,
                \* the folder it made and the folder its actor is filed in

vars == <<input, lang, keys, regEx, mode, text, parsed, pc, run, pl, cb, sk,
          warnings, written, matched, base, rerun, call, game, itemLocations, out,
          imports>>

\* ------------------------------------------------------------------------
\* check (the field extractor)
\* ------------------------------------------------------------------------

asNumber == "n"
asString == "s"

NoText == [given |-> FALSE, s |-> << >>]
TextArg(s) == [given |-> TRUE, s |-> s]

DefaultOptions ==
  [removeFromText |-> TRUE, saveKeys |-> TRUE, type |-> asString,
   text |-> NoText, requiredGroup |-> ""]

wUndefined == <<"u", "n", "d", "e", "f", "i", "n", "e", "d">>

\* String(v) of a capture: an absent capture gives the word undefined
StringOf(g) == IF g.def THEN g.s ELSE wUndefined

\* lines 134-144: one named capture g is copied to the record; a string has
\* its first line break turned into a space, a number is kept unless it is
\* NaN (as Number(undefined) is)
SaveKey(record, key, g, type) ==
  IF type = asString
  THEN Put(record, key, Str(ReplaceFirst(StringOf(g), <<"\n">>, <<" ">>)))
  ELSE IF type = asNumber /\ g.def /\ ~ToNumber(g.s).nan
  THEN Put(record, key, Num(ToNumber(g.s).n))
  ELSE record

\* saveKeys (lines 132-146): every named capture is copied to the record
RECURSIVE SaveKeys(_, _, _, _)
SaveKeys(record, groups, names, type) ==
  IF names = {} THEN record
  ELSE SaveKeys(SaveKey(record, CHOOSE k \in names : TRUE,
                        groups[CHOOSE k \in names : TRUE], type),
                groups, names \ {CHOOSE k \in names : TRUE}, type)

\* the keys of the record that saveKeys assigns
SavedKeys(groups, names, type) ==
  {k \in names : type = asString \/ (type = asNumber /\ groups[k].def /\ ~ToNumber(groups[k].s).nan)}

False == [matched |-> FALSE, groups |-> EmptyObject, source |-> << >>, index |-> 0]

\* the lookup of check (lines 112-116): the template of the key, else its
\* lexical key
HasPattern(regExKey) == regExKey \in DOMAIN regEx \cup KeyNames
Pattern(regExKey) ==
  IF regExKey \in DOMAIN regEx THEN getRegEx(regEx[regExKey])
  ELSE getRegEx(keys[regExKey])

\* line 130 without the final trim: the line break put in front of the
\* buffer for a match of white space stays there
Removed_Untrimmed(buffer, source) == ReplaceFirst(buffer, Trim(source), <<"\n">>)

\* line 130: the trimmed match is replaced by a line break in the buffer,
\* and the buffer trimmed
Removed(buffer, source) == Trim(ReplaceFirst(buffer, Trim(source), <<"\n">>))

\* the removal of line 130 made before the test of the required group: a
\* match that is turned down has left the buffer already
Unmatched_Removed(buffer, record, m, o) ==
  [output |-> False,
   text |-> IF m.ok /\ o.removeFromText
            THEN Trim(ReplaceFirst(buffer, Trim(m.source), <<"\n">>))
            ELSE buffer,
   parsed |-> record, raised |-> FALSE, saved |-> {}]

\* lines 109 and 151: output is still false; the buffer and the record are
\* as they were (m is the result of exec, o the options)
Unmatched(buffer, record, m, o) ==
  [output |-> False, text |-> buffer, parsed |-> record, raised |-> FALSE,
   saved |-> {}]

\* a match is taken whether the required group is defined in it or not
Accepted_AnyGroup(m, named, requiredGroup) == m.ok

\* lines 122-127: there is a match, and the required group, if one is asked
\* for, is defined in it
Accepted(m, named, requiredGroup) ==
  m.ok /\ (requiredGroup = "" \/ (requiredGroup \in named /\ m.groups[requiredGroup].def))

\* lines 129-131
Buffer(buffer, m, o) == IF o.removeFromText THEN Removed(buffer, m.source) ELSE buffer

\* lines 128-148, the match m being accepted: the output, the importer's
\* text and record afterwards, and whether Object.keys raised (saveKeys on a
\* match whose expression has no named capture)
Output(buffer, record, m, named, o) ==
  IF o.saveKeys /\ named = {}
  THEN [output |-> False, text |-> Buffer(buffer, m, o), parsed |-> record,
        raised |-> TRUE, saved |-> {}]
  ELSE [output |-> [matched |-> TRUE, groups |-> m.groups,
                    source |-> m.source, index |-> m.index],
        text |-> Buffer(buffer, m, o),
        parsed |-> IF o.saveKeys THEN SaveKeys(record, m.groups, named, o.type)
                   ELSE record,
        raised |-> FALSE,
        saved |-> IF o.saveKeys THEN SavedKeys(m.groups, named, o.type) ELSE {}]

\* lines 121-150, m being the result of regExp.exec(text)
Checked(buffer, record, m, named, o) ==
  IF Accepted(m, named, o.requiredGroup) THEN Output(buffer, record, m, named, o)
  ELSE Unmatched(buffer, record, m, o)

\* check(regExKey, options) on the importer (buffer, record)
check(buffer, record, regExKey, o) ==
  IF ~HasPattern(regExKey)
  THEN Unmatched(buffer, record, [ok |-> FALSE], o)
  ELSE Checked(buffer, record,
               Exec(Pattern(regExKey), IF o.text.given THEN o.text.s ELSE buffer),
               GroupNames(Pattern(regExKey).alts), o)

\* ------------------------------------------------------------------------
\* String helpers of the importer
\* ------------------------------------------------------------------------

\* String.prototype.replace(/([cls]+)/g, r): every run of cls replaced by r
RECURSIVE ReplaceRuns(_, _, _)
ReplaceRuns(s, cls, r) ==
  IF s = << >> THEN << >>
  ELSE IF Head(s) \in cls
  THEN r \o ReplaceRuns(SubSeq(s, 1 + RunLen(cls, s, 1), Len(s)), cls, r)
  ELSE <<Head(s)>> \o ReplaceRuns(Tail(s), cls, r)

\* String.prototype.split(c) on a one-character separator
RECURSIVE SplitChar(_, _)
RECURSIVE SplitCharAt(_, _, _)
SplitChar(s, c) == SplitCharAt(s, c, IndexOf(s, <<c>>))

\* the separator is at i (0: it does not occur)
SplitCharAt(s, c, i) ==
  IF i = 0 THEN <<s>>
  ELSE <<SubSeq(s, 1, i - 1)>> \o SplitChar(SubSeq(s, i + 1, Len(s)), c)

\* String.prototype.split(re) where re is one capturing group: the pieces
\* between the matches alternate with the matched separators
RECURSIVE SplitCapture(_, _)
RECURSIVE SplitCaptureAt(_, _, _)
SplitCapture(s, re) == SplitCaptureAt(s, re, Exec(re, s))

\* m is the first match of the separator
SplitCaptureAt(s, re, m) ==
  IF ~m.ok \/ m.source = << >> THEN <<s>>
  ELSE <<SubSeq(s, 1, m.index), m.source>>
       \o SplitCapture(SubSeq(s, m.index + Len(m.source) + 1, Len(s)), re)

\* /\s*\.?\s*\.?$/
TrailingStops ==
  RegExp(<< <<Star(WhiteSpace), Maybe({"."}), Star(WhiteSpace), Maybe({"."}),
              EndOfText>> >>)

\* cleanString: line breaks become spaces, leading white space and a
\* trailing /\s*\.?\s*\.?$/ are removed
WithoutStops(s) == SubSeq(s, 1, Exec(TrailingStops, s).index)
cleanString(s) == WithoutStops(TrimStart(ReplaceChars(s, {"\n", "\r"}, " ")))

\* <digits><dice letter><digits>
DiceRoll(letter) ==
  RegExp(<< <<Group("n1", Plus(Digit)), Lit(<<letter>>), Group("n2", Plus(Digit))>> >>)

\* translateRoll: every <digits><dice letter><digits> gets the letter D
RECURSIVE TranslateFrom(_, _)
RECURSIVE TranslateAt(_, _, _)
TranslateFrom(s, letter) == TranslateAt(s, letter, Exec(DiceRoll(letter), s))

\* m is the first roll of s
TranslateAt(s, letter, m) ==
  IF ~m.ok THEN s
  ELSE SubSeq(s, 1, m.index) \o m.groups["n1"].s \o <<"D">> \o m.groups["n2"].s
       \o TranslateFrom(SubSeq(s, m.index + Len(m.source) + 1, Len(s)), letter)

translateRoll(s) ==
  IF keys.diceShort # "" THEN TranslateFrom(s, keys.diceShort) ELSE s

pOpen == <<"<", "p", ">">>
pClose == <<"<", "/", "p", ">">>

RECURSIVE JoinParagraphs(_)
JoinParagraphs(lines) ==
  IF lines = << >> THEN << >>
  ELSE IF Len(lines) = 1 THEN lines[1]
  ELSE lines[1] \o pClose \o pOpen \o JoinParagraphs(Tail(lines))

\* a trimmed line of the notes; empty when it holds no more than commas,
\* full stops and white space
CleanLine(t) ==
  IF \A j \in DOMAIN t : t[j] \in {",", "."} \cup WhiteSpace THEN << >> ELSE t

\* the lines that are left, as paragraphs
Paragraphs(kept) ==
  IF kept = << >> THEN << >> ELSE pOpen \o JoinParagraphs(kept) \o pClose

\* toHTML: the lines that hold more than commas, full stops and white space,
\* each trimmed, as paragraphs; the empty string when none is left
toHTML(s) ==
  Paragraphs(SelectSeq([i \in DOMAIN SplitChar(Trim(s), "\n") |->
                          CleanLine(Trim(SplitChar(Trim(s), "\n")[i]))],
                       LAMBDA t : t # << >>))

\* game.i18n.localize('CoC7.ImportedUnnamedCharacter')
UnnamedCharacter == <<"U", "n", "n", "a", "m", "e", "d">>

ListKeys == {"skills", "languages", "attacks", "spells"}
List(entries) == [t |-> "l", s |-> entries, n |-> 0]
\* `this.parsed[key] = [entry]` for the push: the entries before are lost
Push_Overwrite(o, key, entry) == Put(o, key, List(<<entry>>))

\* this.parsed[key].push(entry), the list created when it is undefined
Push(o, key, entry) ==
  Put(o, key, List((IF Has(o, key) THEN o[key].s ELSE << >>) \o <<entry>>))

LastPercentFalse == [kind |-> "false", n |-> 0]
LastPercentTrue == [kind |-> "true", n |-> 0]
LastPercentNumber(n) == [kind |-> "num", n |-> n]

\* the 40 of `let maxLoops = 40` in processCombat and processSkills
MaxLoops == 40

NoLocals == [min |-> 0, ci |-> 1, cond |-> FALSE, sections |-> << >>, si |-> 1]
NoCombat == [text |-> << >>, lastPercent |-> LastPercentFalse, maxLoops |-> 0,
             weapon |-> FALSE, dodge |-> FALSE]
NoSkills == [text |-> << >>, key |-> "skills", maxLoops |-> 0, skill |-> FALSE]
NoCall == [key |-> "", options |-> DefaultOptions, text |-> << >>,
           parsed |-> EmptyObject, returned |-> "none"]

Hit(key, c) == IF c.output.matched THEN {key} ELSE {}

\* ------------------------------------------------------------------------
\* parseCharacter
\* ------------------------------------------------------------------------

\* U+2013, U+2014 and U+2212 (written here as one stand-in character)
enDash == "~"
\* U+2019
rightQuote == "^"

\* lines 379-383: the text trimmed, dashes and the quotation mark made ASCII
Normalise(s) ==
  ReplaceChars(ReplaceChars(Trim(s), {enDash}, "-"), {rightQuote}, "'")

\* `let min = 0` for `let min = this.text.length`: there is never a header
ParseStart_MinZero ==
  /\ pc = "start"
  /\ text' = Normalise(input)
  /\ pl' = [NoLocals EXCEPT !.min = 0]
  /\ pc' = "core"
  /\ UNCHANGED <<imports, input, lang, keys, regEx, mode, parsed, run, cb, sk, warnings,
                 written, matched, base, rerun, call, game, itemLocations, out>>

\* lines 379-385
ParseStart ==
  /\ pc = "start"
  /\ text' = Normalise(input)
  /\ pl' = [NoLocals EXCEPT !.min = Len(Normalise(input))]
  /\ pc' = "core"
  /\ UNCHANGED <<imports, input, lang, keys, regEx, mode, parsed, run, cb, sk, warnings,
                 written, matched, base, rerun, call, game, itemLocations, out>>

\* lines 387-442: one core field, in the order of CoreKeys; min is lowered
\* to the offset of its match
ParseCore ==
  /\ pc = "core"
  /\ \E c \in {check(text, parsed, CoreKeys[pl.ci],
                     [DefaultOptions EXCEPT !.type = asNumber])} :
       /\ text' = c.text
       /\ parsed' = c.parsed
       /\ written' = written \cup c.saved
       /\ matched' = matched \cup Hit(CoreKeys[pl.ci], c)
       /\ pl' = [pl EXCEPT !.min = IF c.output.matched THEN Min(pl.min, c.output.index)
                                   ELSE pl.min,
                           !.ci = pl.ci + 1]
       /\ pc' = IF pl.ci = Len(CoreKeys) THEN "header" ELSE "core"
  /\ UNCHANGED <<imports, input, lang, keys, regEx, mode, run, cb, sk, warnings, base,
                 rerun, call, game, itemLocations, out>>

HeaderOptions(h) == [DefaultOptions EXCEPT !.text = TextArg(h)]

\* `header = header.replace(check['-source'], '\n')` when the check matched
\* (lines 454, 460)
Without(header, c) ==
  IF c.output.matched THEN ReplaceFirst(header, c.output.source, <<"\n">>)
  ELSE header

\* lines 466-469: the header up to its first full stop
UpToStop(header) ==
  IF IndexOf(header, <<".">>) > 0 THEN SubSeq(header, 1, IndexOf(header, <<".">>))
  ELSE header

\* .replace(/,$/, '')
WithoutComma(t) ==
  IF t # << >> /\ t[Len(t)] = "," THEN SubSeq(t, 1, Len(t) - 1) ELSE t

\* lines 444-479: the header is the text before min; name, age and
\* occupation are taken from it
ParseHeader ==
  /\ pc = "header"
  /\ IF pl.min > 0
     THEN \E header0 \in {SubSeq(text, 1, Min(pl.min, Len(text)))} :
          \E c1 \in {check(text, parsed, "name", HeaderOptions(header0))} :
          \E header1 \in {Without(header0, c1)} :
          \E c2 \in {check(c1.text,
                           IF c1.output.matched THEN c1.parsed
                           ELSE Put(c1.parsed, "name", Str(UnnamedCharacter)),
                           "age", HeaderOptions(header1))} :
          \E header2 \in {Without(header1, c2)} :
          \E c3 \in {check(c2.text, c2.parsed, "occupation", HeaderOptions(header2))} :
          \E rest \in {~c3.output.matched /\ Trim(header2) # << >>} :
          \E occupation \in {UpToStop(header2)} :
            /\ parsed' =
                 IF rest
                 THEN Put(c3.parsed, "occupation",
                          Str(WithoutComma(Trim(ReplaceRuns(occupation, {"\n", "\r"},
                                                            <<" ">>)))))
                 ELSE c3.parsed
            /\ text' = IF rest THEN ReplaceFirst(c3.text, Trim(occupation), <<"\n">>)
                       ELSE c3.text
            /\ written' = written \cup c1.saved \cup c2.saved \cup c3.saved
                            \cup (IF c1.output.matched THEN {} ELSE {"name"})
                            \cup (IF rest THEN {"occupation"} ELSE {})
            /\ matched' = matched \cup Hit("name", c1) \cup Hit("age", c2)
                            \cup Hit("occupation", c3)
     ELSE /\ parsed' = Put(parsed, "name", Str(UnnamedCharacter))
          /\ written' = written \cup {"name"}
          /\ UNCHANGED <<imports, text, matched>>
  /\ pc' = "ageSplit"
  /\ UNCHANGED <<imports, input, lang, keys, regEx, mode, run, pl, cb, sk, warnings, base,
                 rerun, call, game, itemLocations, out>>

\* /^(?<age>\d+),(?<occupation>.+)$/
OccupationAge ==
  Anchored(<< <<Group("age", Plus(Digit)), Lit(<<",">>),
                Group("occupation", Plus(Letter \cup Digit \cup {" ", ".", ",", "-", "'", ":"})),
                EndOfText>> >>)

\* lines 481-492: an occupation that starts with a number and no age
ParseAgeSplit ==
  /\ pc = "ageSplit"
  /\ \E m \in {IF Has(parsed, "occupation") /\ ~Has(parsed, "age")
               THEN Exec(OccupationAge, parsed["occupation"].s)
               ELSE [ok |-> FALSE]} :
       IF m.ok
       THEN /\ parsed' = Put(Put(parsed, "age", Str(m.groups["age"].s)),
                             "occupation", Str(Trim(m.groups["occupation"].s)))
            /\ written' = written \cup {"age", "occupation"}
       ELSE UNCHANGED <<imports, parsed, written>>
  /\ pc' = "db"
  /\ UNCHANGED <<imports, input, lang, keys, regEx, mode, text, run, pl, cb, sk, warnings,
                 matched, base, rerun, call, game, itemLocations, out>>

\* the options of a match against a value of the record
ValueOptions(v) ==
  [DefaultOptions EXCEPT !.removeFromText = FALSE, !.saveKeys = FALSE, !.text = TextArg(v)]

\* the second operand of `!this.check(field) || ...` and of
\* `this.check(field) && ...`: the none key on the value of the field, called
\* only when the field matched (c is the check of the field)
NoneCheck(c, field, none) ==
  IF c.output.matched
  THEN check(c.text, c.parsed, none, ValueOptions(c.parsed[field].s))
  ELSE [output |-> False]

\* `!this.check(field) || this.check(none, {text: this.parsed[field]})`
\* (lines 494-501, 508-515): the field is taken; the condition holds when it
\* did not match or its value matches the none key
ParseOrNone(at, field, none, next) ==
  /\ pc = at
  /\ \E c \in {check(text, parsed, field, DefaultOptions)} :
     \E n \in {NoneCheck(c, field, none)} :
       /\ text' = c.text
       /\ parsed' = c.parsed
       /\ written' = written \cup c.saved
       /\ matched' = matched \cup Hit(field, c) \cup Hit(none, n)
       /\ pl' = [pl EXCEPT !.cond = ~c.output.matched \/ n.output.matched]
  /\ pc' = next
  /\ UNCHANGED <<imports, input, lang, keys, regEx, mode, run, cb, sk, warnings, base,
                 rerun, call, game, itemLocations, out>>

\* the assignment of '0' made whatever the condition is: a value that was
\* read is lost
ParseDefault_Always(at, field, next) ==
  /\ pc = at
  /\ parsed' = Put(parsed, field, Str(<<"0">>))
  /\ written' = written \cup {field}
  /\ pc' = next
  /\ UNCHANGED <<imports, input, lang, keys, regEx, mode, text, run, pl, cb, sk, warnings,
                 matched, base, rerun, call, game, itemLocations, out>>

\* `this.parsed[field] = '0'` under the condition (lines 502, 516, 534)
ParseDefault(at, field, next) ==
  /\ pc = at
  /\ IF pl.cond
     THEN /\ parsed' = Put(parsed, field, Str(<<"0">>))
          /\ written' = written \cup {field}
     ELSE UNCHANGED <<imports, parsed, written>>
  /\ pc' = next
  /\ UNCHANGED <<imports, input, lang, keys, regEx, mode, text, run, pl, cb, sk, warnings,
                 matched, base, rerun, call, game, itemLocations, out>>

\* `this.parsed[field] = this.translateRoll(this.parsed[field])` (lines 504,
\* 524); an undefined value stays undefined
ParseRoll(at, field, next) ==
  /\ pc = at
  /\ IF Has(parsed, field)
     THEN /\ parsed' = Put(parsed, field, Str(translateRoll(parsed[field].s)))
          /\ written' = written \cup {field}
     ELSE UNCHANGED <<imports, parsed, written>>
  /\ pc' = next
  /\ UNCHANGED <<imports, input, lang, keys, regEx, mode, text, run, pl, cb, sk, warnings,
                 matched, base, rerun, call, game, itemLocations, out>>

\* `this.check(field, {type})` as a statement (lines 506, 519, 521, 523)
ParseField(at, field, type, next) ==
  /\ pc = at
  /\ \E c \in {check(text, parsed, field, [DefaultOptions EXCEPT !.type = type])} :
       /\ text' = c.text
       /\ parsed' = c.parsed
       /\ written' = written \cup c.saved
       /\ matched' = matched \cup Hit(field, c)
  /\ pc' = next
  /\ UNCHANGED <<imports, input, lang, keys, regEx, mode, run, pl, cb, sk, warnings, base,
                 rerun, call, game, itemLocations, out>>

ParseDb == ParseOrNone("db", "db", "dbNone", "dbDefault")
ParseDbDefault == ParseDefault("dbDefault", "db", "dbRoll")
ParseDbRoll == ParseRoll("dbRoll", "db", "build")
ParseBuild == ParseField("build", "build", asString, "armor")
ParseArmor == ParseOrNone("armor", "armor", "armorNone", "armorDefault")
ParseArmorDefault == ParseDefault("armorDefault", "armor", "mov")
ParseMov == ParseField("mov", "mov", asNumber, "lck")
ParseLck == ParseField("lck", "lck", asNumber, "sanLoss")
ParseSanLoss == ParseField("sanLoss", "sanLoss", asString, "sanLossRoll")
ParseSanLossRoll == ParseRoll("sanLossRoll", "sanLoss", "attacksPerRound")

\* the condition of lines 526-533 written as the one of the damage bonus
\* and the armor: it holds when the field did not match, too
ParseAttacksPerRound_AsArmor ==
  ParseOrNone("attacksPerRound", "attacksPerRound", "attacksPerRoundNone",
              "attacksPerRoundDefault")

\* lines 526-533: the condition holds when the field matched and its value
\* matches the none key
ParseAttacksPerRound ==
  /\ pc = "attacksPerRound"
  /\ \E c \in {check(text, parsed, "attacksPerRound", DefaultOptions)} :
     \E n \in {NoneCheck(c, "attacksPerRound", "attacksPerRoundNone")} :
       /\ text' = c.text
       /\ parsed' = c.parsed
       /\ written' = written \cup c.saved
       /\ matched' = matched \cup Hit("attacksPerRound", c)
                       \cup Hit("attacksPerRoundNone", n)
       /\ pl' = [pl EXCEPT !.cond = c.output.matched /\ n.output.matched]
  /\ pc' = "attacksPerRoundDefault"
  /\ UNCHANGED <<imports, input, lang, keys, regEx, mode, run, cb, sk, warnings, base,
                 rerun, call, game, itemLocations, out>>

ParseAttacksPerRoundDefault ==
  ParseDefault("attacksPerRoundDefault", "attacksPerRound", "combatHeader")

\* ------------------------------------------------------------------------
\* The section splitter (lines 536-609)
\* ------------------------------------------------------------------------

NoSave == [DefaultOptions EXCEPT !.saveKeys = FALSE]

\* lines 537-553: a line break is put in front; without a combat header the
\* guessed start of the combat section gets the canonical header
ParseCombatHeader ==
  /\ pc = "combatHeader"
  /\ \E t \in {<<"\n">> \o text} :
     \E c \in {check(t, parsed, "guessStartCombat",
                     [NoSave EXCEPT !.removeFromText = FALSE])} :
       IF Exec(getRegEx(keys.sectionCombats), t).ok
       THEN text' = t /\ UNCHANGED matched
       ELSE /\ matched' = matched \cup Hit("guessStartCombat", c)
            /\ text' = IF c.output.matched
                       THEN SubSeq(t, 1, c.output.index) \o keys.newCombatHeader
                            \o SubSeq(t, c.output.index + 1, Len(t))
                       ELSE t
  /\ pc' = "split"
  /\ UNCHANGED <<imports, input, lang, keys, regEx, mode, parsed, run, pl, cb, sk, warnings,
                 written, base, rerun, call, game, itemLocations, out>>

\* lines 555-556
ParseSplit ==
  /\ pc = "split"
  /\ pl' = [pl EXCEPT !.sections = SplitCapture(text, getRegEx(regEx["sections"])),
                      !.si = 1]
  /\ pc' = "section"
  /\ UNCHANGED <<imports, input, lang, keys, regEx, mode, text, parsed, run, cb, sk,
                 warnings, written, matched, base, rerun, call, game,
                 itemLocations, out>>

\* text.split(/\.\r?\n/)[0]
SentenceBreak == RegExp(<< <<Lit(<<".">>), Maybe({"\r"}), Lit(<<"\n">>)>> >>)
\* s before the match m, all of s without a match
Before(s, m) == IF m.ok THEN SubSeq(s, 1, m.index) ELSE s
FirstSentence(s) == Before(s, Exec(SentenceBreak, s))

\* which sub-parser the element of sections is a header of
SectionKind(s) ==
  IF Exec(getRegEx(keys.sectionCombats), s).ok THEN "combat"
  ELSE IF Exec(getRegEx(keys.sectionSkills), s).ok THEN "skills"
  ELSE IF Exec(getRegEx(keys.sectionLangauges), s).ok THEN "languages"
  ELSE IF Exec(getRegEx(keys.sectionSpells), s).ok THEN "spells"
  ELSE "none"

\* lines 558-608, one round of the loop: a header followed by a body is
\* removed from the buffer and its body handed to the sub-parser, which
\* returns at once on a blank body
ParseSection ==
  /\ pc = "section"
  /\ pl.si <= Len(pl.sections)
  /\ \E kind \in {IF pl.si + 1 <= Len(pl.sections) THEN SectionKind(pl.sections[pl.si])
                  ELSE "none"} :
       IF kind = "none"
       THEN /\ pl' = [pl EXCEPT !.si = pl.si + 1]
            /\ UNCHANGED <<imports, text, cb, sk, pc, matched>>
       ELSE \E body \in {pl.sections[pl.si + 1]} :
            \E blank \in {Trim(body) = << >>} :
              /\ text' = Trim(ReplaceFirst(<<"\n">> \o text \o <<"\n">>,
                                           pl.sections[pl.si], <<"\n">>))
              /\ pl' = [pl EXCEPT !.si = pl.si + 2]
              /\ matched' = matched \cup {"sections"}
              /\ cb' = IF kind = "combat" /\ ~blank
                       THEN [text |-> body, lastPercent |-> LastPercentFalse,
                             maxLoops |-> MaxLoops, weapon |-> FALSE, dodge |-> FALSE]
                       ELSE cb
              /\ sk' = IF kind \in {"skills", "languages"} /\ ~blank
                       THEN [text |-> FirstSentence(body), key |-> kind,
                             maxLoops |-> MaxLoops, skill |-> FALSE]
                       ELSE IF kind = "spells" /\ ~blank
                       THEN [sk EXCEPT !.text = body]
                       ELSE sk
              /\ pc' = IF blank THEN "section"
                       ELSE IF kind = "languages" THEN "skills" ELSE kind
  /\ UNCHANGED <<imports, input, lang, keys, regEx, mode, parsed, run, warnings, written,
                 base, rerun, call, game, itemLocations, out>>

\* line 611
ParseNotes ==
  /\ pc = "section"
  /\ pl.si > Len(pl.sections)
  /\ parsed' = Put(parsed, "gmnotes", Str(toHTML(text)))
  /\ written' = written \cup {"gmnotes"}
  /\ pc' = "parsed"
  /\ UNCHANGED <<imports, input, lang, keys, regEx, mode, text, run, pl, cb, sk, warnings,
                 matched, base, rerun, call, game, itemLocations, out>>

\* ------------------------------------------------------------------------
\* processCombat
\* ------------------------------------------------------------------------

SpanOptions(t, required) ==
  [NoSave EXCEPT !.text = TextArg(t), !.requiredGroup = required]
NameOptions(name) ==
  [NoSave EXCEPT !.text = TextArg(name), !.removeFromText = FALSE]

\* lines 196-222: the name holds a word of one of the firearm categories
isRanged(name) ==
  \E key \in {"handgun", "rifle", "smb", "machineGun", "launched"} :
    check(<< >>, EmptyObject, key, NameOptions(name)).output.matched

Sign == {"+", "-"}
\* this.parsed.db.replace(/^[-+]/, '')
Unsigned(db) == IF db # << >> /\ Head(db) \in Sign THEN Tail(db) ELSE db

\* lines 235-243: half the damage bonus, maybe the full one, maybe its value
HalfDb(db) ==
  RegExp(<< <<Star(WhiteSpace), Maybe(Sign), Star(WhiteSpace), Lit(WordOf(keys.halfdb)),
              Star(WhiteSpace), Optional(Lit(WordOf(keys.fulldb))), Maybe(Sign),
              Star(WhiteSpace), Optional(Lit(Unsigned(db)))>> >>)

\* lines 248-254: the damage bonus, maybe its value
FullDb(db) ==
  RegExp(<< <<Star(WhiteSpace), Maybe(Sign), Star(WhiteSpace), Lit(WordOf(keys.fulldb)),
              Star(WhiteSpace), Maybe(Sign), Star(WhiteSpace),
              Optional(Lit(Unsigned(db)))>> >>)

\* lines 234-260: the damage-bonus terms are taken out of the damage, one a
\* pass, until none is found
RECURSIVE StripDb(_, _, _, _)
RECURSIVE StripHalf(_, _, _, _, _)
RECURSIVE StripFull(_, _, _, _, _)
StripDb(damage, ahdb, addb, db) ==
  StripHalf(damage, ahdb, addb, db, Exec(HalfDb(db), damage))

\* lines 235-247, found being the match of half the damage bonus
StripHalf(damage, ahdb, addb, db, found) ==
  IF found.ok THEN StripDb(ReplaceFirst(damage, found.source, << >>), TRUE, addb, db)
  ELSE StripFull(damage, ahdb, addb, db, Exec(FullDb(db), damage))

\* lines 248-259, found being the match of the damage bonus
StripFull(damage, ahdb, addb, db, found) ==
  IF found.ok THEN StripDb(ReplaceFirst(damage, found.source, << >>), ahdb, TRUE, db)
  ELSE [damage |-> damage, ahdb |-> ahdb, addb |-> addb]

\* the record with `isShotgun ? 20 : 0` written for the normal band and
\* `isShotgun ? 10 : 0` for the long one
WeaponRecord_BandsSwapped(name, lastPercent, stripped, damages, rngd) ==
  [name |-> name, type |-> "weapon", skill |-> lastPercent,
   normal |-> [value |-> IF Len(damages) = 3 THEN 20 ELSE 0, damage |-> damages[1]],
   long |-> [value |-> IF Len(damages) = 3 THEN 10 ELSE 0,
             damage |-> IF Len(damages) = 3 THEN damages[2] ELSE << >>],
   extreme |-> [value |-> IF Len(damages) = 3 THEN 50 ELSE 0,
                damage |-> IF Len(damages) = 3 THEN damages[3] ELSE << >>],
   shotgun |-> Len(damages) = 3, rngd |-> rngd, melee |-> ~rngd,
   ahdb |-> stripped.ahdb, addb |-> stripped.addb]

\* lines 261-291: the weapon record
WeaponRecord(name, lastPercent, stripped, damages, rngd) ==
  [name |-> name, type |-> "weapon", skill |-> lastPercent,
   normal |-> [value |-> IF Len(damages) = 3 THEN 10 ELSE 0, damage |-> damages[1]],
   long |-> [value |-> IF Len(damages) = 3 THEN 20 ELSE 0,
             damage |-> IF Len(damages) = 3 THEN damages[2] ELSE << >>],
   extreme |-> [value |-> IF Len(damages) = 3 THEN 50 ELSE 0,
                damage |-> IF Len(damages) = 3 THEN damages[3] ELSE << >>],
   shotgun |-> Len(damages) = 3, rngd |-> rngd, melee |-> ~rngd,
   ahdb |-> stripped.ahdb, addb |-> stripped.addb]

\* lines 196-222 and 261-262: isRanged, damages and isShotgun of the weapon
\* of a name and a damage without its damage-bonus terms
WeaponOf(name, lastPercent, stripped) ==
  WeaponRecord(name, lastPercent, stripped, SplitChar(stripped.damage, "/"),
               isRanged(name) \/ Len(SplitChar(stripped.damage, "/")) = 3)

\* lines 194-292: the weapon record of a match
WeaponData(groups, lastPercent) ==
  WeaponOf(cleanString(IF groups["name"].def THEN groups["name"].s ELSE << >>),
           lastPercent,
           StripDb(translateRoll(cleanString(IF groups["damage"].def
                                             THEN groups["damage"].s ELSE << >>)),
                   FALSE, FALSE, parsed["db"].s))

AnyChar == Letter \cup Digit \cup WhiteSpace \cup
  {",", ".", ":", "%", "/", "+", "-", "(", ")", "'", "<", ">", enDash, rightQuote}
\* . of a regular expression
Dot == AnyChar \ {"\n", "\r"}
\* /^(.+)\n/
FirstLine == Anchored(<< <<Plus(Dot), Lit(<<"\n">>)>> >>)
\* /^[^\n]+$/
OneLine == Anchored(<< <<Plus(AnyChar \ {"\n"}), EndOfText>> >>)

\* lines 293-297: neither a dodge nor a weapon; newline is the match of the
\* first line
DropLine(t, newline) ==
  IF newline.ok THEN ReplaceFirst(t, newline.source, <<"\n">>)
  ELSE IF Exec(OneLine, t).ok THEN << >>
  ELSE t

\* lines 223-230: the percentage of the weapon, true when it has none
LastPercent(percentage) ==
  IF percentage.def THEN LastPercentNumber(ToNumber(percentage.s).n)
  ELSE LastPercentTrue

\* lines 171-302, one round of the loop: a dodge, else a weapon (with a
\* percentage of its own unless one is carried over), else a line is dropped
CombatStep ==
  /\ pc = "combat"
  /\ \E t \in {Trim(cb.text)} :
     \E d \in {check(text, parsed, "weaponDodge", SpanOptions(t, ""))} :
     \E w \in {IF d.output.matched THEN [output |-> False, text |-> text]
               ELSE check(text, parsed, "weapon",
                          SpanOptions(t, IF cb.lastPercent.kind = "false"
                                         THEN "percentage" ELSE ""))} :
     \E t2 \in {IF d.output.matched THEN ReplaceFirst(t, d.output.source, <<"\n">>)
                ELSE IF w.output.matched THEN ReplaceFirst(t, w.output.source, <<"\n">>)
                ELSE DropLine(t, Exec(FirstLine, t))} :
     \E weapon \in {IF d.output.matched THEN cb.weapon ELSE w.output.matched} :
       /\ text' = IF d.output.matched THEN d.text ELSE w.text
       /\ parsed' =
            IF d.output.matched
            THEN Push(parsed, "skills",
                      [name |-> cleanString(d.output.groups["name"].s),
                       value |-> ToNumber(d.output.groups["percentage"].s).n,
                       push |-> "false"])
            ELSE IF w.output.matched
            THEN Push(parsed, "attacks",
                      WeaponData(w.output.groups,
                                 LastPercent(w.output.groups["percentage"])))
            ELSE parsed
       /\ written' = written \cup (IF d.output.matched THEN {"skills"}
                                   ELSE IF w.output.matched THEN {"attacks"} ELSE {})
       /\ matched' = matched \cup Hit("weaponDodge", d) \cup Hit("weapon", w)
       /\ cb' = [text |-> t2,
                 lastPercent |-> IF w.output.matched
                                 THEN LastPercent(w.output.groups["percentage"])
                                 ELSE cb.lastPercent,
                 maxLoops |-> cb.maxLoops - 1, weapon |-> weapon,
                 dodge |-> d.output.matched]
       /\ pc' = IF cb.maxLoops - 1 > 0 /\ (weapon \/ d.output.matched \/ t2 # << >>)
                THEN "combat" ELSE "combatEnd"
  /\ UNCHANGED <<imports, input, lang, keys, regEx, mode, run, pl, sk, warnings, base,
                 rerun, call, game, itemLocations, out>>

\* lines 303-308
CombatEnd ==
  /\ pc = "combatEnd"
  /\ warnings' = IF cb.maxLoops = 0 THEN warnings \o <<"Unexpected weapons text">>
                 ELSE warnings
  /\ pc' = "section"
  /\ UNCHANGED <<imports, input, lang, keys, regEx, mode, text, parsed, run, pl, cb, sk,
                 written, matched, base, rerun, call, game, itemLocations, out>>

\* ------------------------------------------------------------------------
\* processSkills, processSpells
\* ------------------------------------------------------------------------

\* lines 326-340, one round of the loop
SkillsStep ==
  /\ pc = "skills"
  /\ \E t \in {Trim(sk.text)} :
     \E c \in {check(text, parsed, "skill", SpanOptions(t, ""))} :
       /\ text' = c.text
       /\ parsed' = IF c.output.matched
                    THEN Push(parsed, sk.key,
                              [name |-> cleanString(c.output.groups["name"].s),
                               value |-> ToNumber(c.output.groups["percentage"].s).n,
                               push |-> "undefined"])
                    ELSE parsed
       /\ written' = written \cup (IF c.output.matched THEN {sk.key} ELSE {})
       /\ matched' = matched \cup Hit("skill", c)
       /\ sk' = [sk EXCEPT !.text = IF c.output.matched
                                    THEN ReplaceFirst(t, c.output.source, <<"\n">>)
                                    ELSE t,
                           !.maxLoops = sk.maxLoops - 1,
                           !.skill = c.output.matched]
       /\ pc' = IF sk.maxLoops - 1 > 0 /\ c.output.matched THEN "skills"
                ELSE "skillsEnd"
  /\ UNCHANGED <<imports, input, lang, keys, regEx, mode, run, pl, cb, warnings, base,
                 rerun, call, game, itemLocations, out>>

\* lines 341-346
SkillsEnd ==
  /\ pc = "skillsEnd"
  /\ warnings' = IF sk.maxLoops = 0 THEN warnings \o <<"Unexpected skills text">>
                 ELSE warnings
  /\ pc' = "section"
  /\ UNCHANGED <<imports, input, lang, keys, regEx, mode, text, parsed, run, pl, cb, sk,
                 written, matched, base, rerun, call, game, itemLocations, out>>

\* the comma at i is outside parentheses: no "(" before it is followed by
\* one or more characters other than ")" up to the comma: /(?<!\([^)]+),/
SplitsAt(s, i) ==
  /\ s[i] = ","
  /\ ~\E j \in 1..(i - 2) : s[j] = "(" /\ \A k \in (j + 1)..(i - 1) : s[k] # ")"

RECURSIVE SplitSpells(_, _, _)
SplitSpells(s, from, i) ==
  IF i > Len(s) THEN <<SubSeq(s, from, Len(s))>>
  ELSE IF SplitsAt(s, i)
  THEN <<SubSeq(s, from, i - 1)>> \o SplitSpells(s, i + 1, i + 1)
  ELSE SplitSpells(s, from, i + 1)

RECURSIVE PushAll(_, _, _)
PushAll(o, key, entries) ==
  IF entries = << >> THEN o
  ELSE PushAll(Push(o, key, Head(entries)), key, Tail(entries))

\* lines 358-369
ProcessSpells ==
  /\ pc = "spells"
  /\ \E t \in {FirstSentence(sk.text)} :
     \E spellsArr \in {SplitSpells(ReplaceRuns(t, {"\n", "\r"}, <<" ">>), 1, 1)} :
       /\ text' = ReplaceFirst(text, Trim(t), <<"\n">>)
       /\ parsed' = PushAll(parsed, "spells",
                            [i \in DOMAIN spellsArr |-> cleanString(spellsArr[i])])
  /\ written' = written \cup {"spells"}
  /\ matched' = matched \cup {"spells"}
  /\ pc' = "section"
  /\ UNCHANGED <<imports, input, lang, keys, regEx, mode, run, pl, cb, sk, warnings, base,
                 rerun, call, game, itemLocations, out>>

\* ------------------------------------------------------------------------
\* needsConversion, convert7E
\* ------------------------------------------------------------------------

Characteristics == {"str", "con", "siz", "dex", "app", "int", "pow", "edu"}
Multiplied == {"str", "con", "siz", "dex", "app", "int", "pow"}

\* the number a record value compares as: `npc[key] > 30`
NumberOf(v) ==
  IF v.t = "n" THEN [nan |-> FALSE, n |-> v.n]
  ELSE IF v.t = "s" THEN ToNumber(v.s)
  ELSE [nan |-> TRUE, n |-> 0]

\* the number NaN as a record value
NaN == [t |-> "nan", s |-> << >>, n |-> 0]

\* lines 1043-1063: no conversion when a characteristic is greater than 30
needsConversion(npc) ==
  ~\E key \in Characteristics :
     Has(npc, key) /\ ~NumberOf(npc[key]).nan /\ NumberOf(npc[key]).n > 30

minus1d4 == <<"-", "1", "d", "4">>
minus1d6 == <<"-", "1", "d", "6">>

\* `creature[key] *= 5` written as `creature[key] * 5`: the product is lost
Times5_Lost(v) == v

\* `creature[key] *= 5`: a field kept as text is not a number and gives NaN
Times5(v) == IF NumberOf(v).nan THEN NaN ELSE Num(NumberOf(v).n * 5)

\* `creature.edu <= 26` written as `< 26`: an education of 26 gives 99
ConvertEdu_Below26(v) ==
  LET e == NumberOf(v)
  IN  IF e.nan THEN Num(99)
      ELSE IF e.n <= 18 THEN Num(e.n * 5)
      ELSE IF e.n < 26 THEN Num(e.n + 90 - 18)
      ELSE Num(99)

\* lines 1120-1129
ConvertEdu(v) ==
  LET e == NumberOf(v)
  IN  IF e.nan THEN Num(99)
      ELSE IF e.n <= 18 THEN Num(e.n * 5)
      ELSE IF e.n <= 26 THEN Num(e.n + 90 - 18)
      ELSE Num(99)

\* lines 1130-1136
ConvertDb(v) ==
  IF v = Str(minus1d4) THEN Num(0 - 1)
  ELSE IF v = Str(minus1d6) THEN Num(0 - 2)
  ELSE v

\* lines 1111-1141
convert7E(creature) ==
  [key \in DOMAIN creature |->
     IF key \in Multiplied THEN Times5(creature[key])
     ELSE IF key = "edu" THEN ConvertEdu(creature[key])
     ELSE IF key = "db" THEN ConvertDb(creature[key])
     ELSE creature[key]]

\* inputs.convertFrom6E
Modes == {"coc-guess", "coc-convert", "coc-7e"}

\* lines 1086-1092
Converts(m, character) ==
  (m = "coc-guess" /\ needsConversion(character)) \/ m = "coc-convert"

NoOut == [stage |-> "none", converted |-> 0, character |-> EmptyObject, attacks |-> << >>, items |-> << >>,
          weaponSkills |-> << >>, actor |-> EmptyObject, npc |-> << >>,
          raised |-> FALSE]

\* lines 1086-1092: the record is converted in place, or kept
CreateActorConvert ==
  /\ pc = "parsed"
  /\ IF Converts(mode, parsed)
     THEN /\ parsed' = convert7E(parsed)
          /\ out' = [out EXCEPT !.converted = out.converted + 1,
                                 !.stage = "converted", !.character = parsed]
     ELSE /\ parsed' = parsed
          /\ out' = [out EXCEPT !.stage = "kept", !.character = parsed]
  /\ pc' = "assemble"
  /\ UNCHANGED <<imports, input, lang, keys, regEx, mode, text, run, pl, cb, sk, warnings, written,
                 matched, base, rerun, call, game, itemLocations>>

\* ------------------------------------------------------------------------
\* guessItem, weaponSkill, itemsData, actorData
\* ------------------------------------------------------------------------

UpperCase == <<"A", "B", "C", "D", "E", "F", "G", "H", "I", "J", "K", "L", "M",
               "N", "O", "P", "Q", "R", "S", "T", "U", "V", "W", "X", "Y", "Z">>
LowerCase == <<"a", "b", "c", "d", "e", "f", "g", "h", "i", "j", "k", "l", "m",
               "n", "o", "p", "q", "r", "s", "t", "u", "v", "w", "x", "y", "z">>

\* String.prototype.toLowerCase
toLowerCase(s) ==
  [i \in DOMAIN s |->
     IF s[i] \in Upper
     THEN LowerCase[CHOOSE k \in DOMAIN UpperCase : UpperCase[k] = s[i]]
     ELSE s[i]]

\* an item of the directory or of a pack: a skill or a spell
CatalogItem(name, type, combat, value) ==
  [name |-> name, type |-> type, combat |-> combat, value |-> value]
Pack(entity, package, documents) ==
  [entity |-> entity, package |-> package, documents |-> documents]

NotFound == [found |-> FALSE, item |-> CatalogItem(<< >>, "", FALSE, 0)]
Found(item) == [found |-> TRUE, item |-> item]

\* Array.prototype.find: the first of the items kept
FirstFound(items, hits) ==
  IF hits = {} THEN NotFound ELSE Found(items[Least(hits)])

\* Array.prototype.find with the predicate of lines 844-847 and 868-871
FindItem(items, type, name, combat) ==
  FirstFound(items,
             {i \in DOMAIN items :
                /\ items[i].type = type
                /\ toLowerCase(items[i].name) = name
                /\ (combat = "null" \/ items[i].combat = (combat = "true"))})

\* lines 857-865: the packs a location letter selects
Selects(location, pack) ==
  /\ pack.entity = "Item"
  /\ \/ location = "w" /\ pack.package = "world"
     \/ location = "S" /\ pack.package = "CoC7"
     \/ location = "s" /\ pack.package \notin {"world", "CoC7"}

RECURSIVE FindInPacks(_, _, _, _, _, _)

\* lines 873-875: the first pack with the item ends the search
NextPack(existing, packs, k, location, type, name, combat) ==
  IF existing.found THEN existing
  ELSE FindInPacks(packs, k + 1, location, type, name, combat)

\* lines 856-877: the packs in their order
FindInPacks(packs, k, location, type, name, combat) ==
  IF k > Len(packs) THEN NotFound
  ELSE NextPack(IF Selects(location, packs[k])
                THEN FindItem(packs[k].documents, type, name, combat)
                ELSE NotFound,
                packs, k, location, type, name, combat)

RECURSIVE GuessFrom(_, _, _, _, _, _)

\* lines 849-851 and 873-875: the first location with the item ends the
\* search
NextLocation(existing, g, locations, o, type, name, combat) ==
  IF existing.found THEN existing
  ELSE GuessFrom(g, locations, o + 1, type, name, combat)

\* lines 840-880: the locations in their order
GuessFrom(g, locations, o, type, name, combat) ==
  IF o > Len(locations) THEN NotFound
  ELSE NextLocation(IF locations[o] = "i"
                    THEN FindItem(g.items, type, name, combat)
                    ELSE IF locations[o] \in {"w", "m", "s"}
                    THEN FindInPacks(g.packs, 1, locations[o], type, name, combat)
                    ELSE NotFound,
                    g, locations, o, type, name, combat)

\* lines 837-881
guessItem(g, locations, type, name, combat) ==
  GuessFrom(g, locations, 1, type, toLowerCase(name), combat)

\* getRegEx of the literal word, flags iu: the word occurs in the name,
\* whatever the case
HasWord(name, word) == IndexOf(toLowerCase(name), toLowerCase(word)) > 0


\* the names guessItem is asked for (lines 984-1010)
SkillName ==
  [handgun |-> <<"H", "a", "n", "d", "g", "u", "n">>,
   rifleShotgun |-> <<"R", "i", "f", "l", "e", "/", "S", "h", "o", "t", "g", "u", "n">>,
   rifle |-> <<"R", "i", "f", "l", "e">>,
   shotgun |-> <<"S", "h", "o", "t", "g", "u", "n">>,
   submachineGun |-> <<"S", "u", "b", "m", "a", "c", "h", "i", "n", "e", " ", "G", "u", "n">>,
   machineGun |-> <<"M", "a", "c", "h", "i", "n", "e", " ", "G", "u", "n">>,
   launch |-> <<"L", "a", "u", "n", "c", "h">>]

\* the words given to getRegEx (lines 983-1009)
CategoryWord ==
  [handgun |-> <<"h", "a", "n", "d", "g", "u", "n">>,
   rifle |-> <<"r", "i", "f", "l", "e">>,
   smb |-> <<"s", "m", "b">>,
   machineGun |-> <<"m", "a", "c", "h", "i", "n", "e", "G", "u", "n">>,
   launched |-> <<"l", "a", "u", "n", "c", "h", "e", "d">>]

\* an item of the actor: a skill, a weapon or a spell
Item(name, type, value, baseValue, damage) ==
  [name |-> name, type |-> type, value |-> value, base |-> baseValue,
   damage |-> damage]

\* the value of data.skill.id as a number: Number(true) is 1, Number(null) 0
IdNumber(id) == IF id.kind = "num" THEN id.n ELSE IF id.kind = "true" THEN 1 ELSE 0

\* lines 983-1014: the names guessItem is asked for, in their order, for
\* the category the weapon's name belongs to
CategoryNames(name) ==
  IF HasWord(name, CategoryWord.handgun) THEN <<SkillName.handgun>>
  ELSE IF HasWord(name, CategoryWord.rifle)
  THEN <<SkillName.rifleShotgun, SkillName.rifle, SkillName.shotgun>>
  ELSE IF HasWord(name, CategoryWord.smb) THEN <<SkillName.submachineGun>>
  ELSE IF HasWord(name, CategoryWord.machineGun) THEN <<SkillName.machineGun>>
  ELSE IF HasWord(name, CategoryWord.launched) THEN <<SkillName.launch>>
  ELSE << >>

RECURSIVE GuessFirst(_, _, _, _)

\* lines 990-995: the next name is asked for when the skill is not found
NextName(skill, g, locations, names, k) ==
  IF skill.found THEN skill ELSE GuessFirst(g, locations, names, k + 1)

\* lines 984-1010: guessItem('skill', name, { combat: true }) on the names
GuessFirst(g, locations, names, k) ==
  IF k > Len(names) THEN NotFound
  ELSE NextName(guessItem(g, locations, "skill", names[k], "true"),
                g, locations, names, k)

\* lines 983-1014: the catalogue skill of the category
CategorySkill(g, locations, name) ==
  GuessFirst(g, locations, CategoryNames(name), 1)

\* lines 1015-1036: the clone of the catalogue skill with the weapon's
\* percentage, else a new skill named as the weapon
SkillClone(skill, weapon) ==
  IF skill.found
  THEN Item(skill.item.name, "skill", IdNumber(weapon.skill), skill.item.value, << >>)
  ELSE Item(weapon.name, "skill", IdNumber(weapon.skill), IdNumber(weapon.skill), << >>)

\* lines 981-1037
weaponSkill(g, locations, weapon) ==
  SkillClone(CategorySkill(g, locations, weapon.name), weapon)

Null == [kind |-> "null", n |-> 0]
NoSkill == Item(<< >>, "false", 0, 0, << >>)

\* lines 894-901: the skill when the attack has one, the attack, and the
\* pair of both
AttackPair(own, skill, item, rest) ==
  [items |-> (IF own THEN <<skill>> ELSE << >>) \o <<item>> \o rest.items,
   weaponSkills |-> <<[skill |-> skill, attack |-> item]>> \o rest.weaponSkills]

\* lines 893-902, from attack k on: an attack with a number for its
\* percentage has a skill
RECURSIVE AttackItems(_, _, _, _)
AttackItems(g, locations, attacks, k) ==
  IF k > Len(attacks) THEN [items |-> << >>, weaponSkills |-> << >>]
  ELSE AttackPair(attacks[k].skill.kind # "true",
                  IF attacks[k].skill.kind # "true"
                  THEN weaponSkill(g, locations, attacks[k]) ELSE NoSkill,
                  Item(attacks[k].name, "weapon", 0, 0, attacks[k].normal.damage),
                  AttackItems(g, locations, attacks, k + 1))

\* CoCActor.emptySkill(name, value), CoCActor.emptySpell(name)
emptySkill(name, value) == Item(name, "skill", value, value, << >>)
emptySpell(name) == Item(name, "spell", 0, 0, << >>)

\* lines 908-921 and 930-941: the clone of the catalogue skill with the
\* value for its base, else an empty skill
SkillOrEmpty(existing, skill) ==
  IF existing.found
  THEN Item(existing.item.name, "skill", existing.item.value, skill.value, << >>)
  ELSE emptySkill(skill.name, skill.value)

\* lines 906-922 and 926-940
SkillItem(g, locations, skill) ==
  SkillOrEmpty(guessItem(g, locations, "skill", skill.name, "null"), skill)

\* lines 947-952
SpellOrEmpty(existing, name) ==
  IF existing.found THEN Item(existing.item.name, "spell", 0, 0, << >>)
  ELSE emptySpell(name)

\* lines 944-952
SpellItem(g, locations, name) ==
  SpellOrEmpty(guessItem(g, locations, "spell", name, "null"), name)

ListOf(o, key) == IF Has(o, key) THEN o[key].s ELSE << >>

\* lines 904-953: the items after the attacks, in their order
ItemsAfter(attacks, g, locations, skills, languages, spells) ==
  [items |-> attacks.items
               \o [i \in DOMAIN skills |-> SkillItem(g, locations, skills[i])]
               \o [i \in DOMAIN languages |-> SkillItem(g, locations, languages[i])]
               \o [i \in DOMAIN spells |-> SpellItem(g, locations, spells[i])],
   weaponSkills |-> attacks.weaponSkills]

\* lines 888-955: the items in their order, and this.weaponSkills
itemsData(g, locations, character) ==
  ItemsAfter(AttackItems(g, locations, ListOf(character, "attacks"), 1),
             g, locations, ListOf(character, "skills"),
             ListOf(character, "languages"), ListOf(character, "spells"))

\* line 899: `attack.data.skill.id = null` on the attacks of the record
ClearIds(character) ==
  IF Has(character, "attacks")
  THEN Put(character, "attacks",
           List([i \in DOMAIN character["attacks"].s |->
                   [character["attacks"].s[i] EXCEPT !.skill = Null]]))
  ELSE character

\* lines 780-823: the fields of the record that are defined, by group
FieldsOf(character, fields) ==
  [key \in {k \in fields : Has(character, k)} |-> character[key]]
Numbers(character, fields) ==
  [key \in {k \in fields : Has(character, k)} |-> NumberOf(character[key])]

\* lines 766-828
actorData(character) ==
  [characteristics |-> Numbers(character, Characteristics),
   attribs |-> Numbers(character, {"san", "mov", "build", "armor", "lck", "hp", "mp"}),
   db |-> FieldsOf(character, {"db"}),
   infos |-> FieldsOf(character, {"age", "occupation"}),
   sanLoss |-> IF Has(character, "sanLoss")
               THEN SplitChar(character["sanLoss"].s, "/") ELSE << >>,
   attacksPerRound |-> Numbers(character, {"attacksPerRound"}),
   keeper |-> FieldsOf(character, {"gmnotes"})]

\* ------------------------------------------------------------------------
\* createEntity
\* ------------------------------------------------------------------------

\* 'Imported characters'
folderName == <<"I", "m", "p", "o", "r", "t", "e", "d", " ", "c", "h", "a", "r", "a", "c", "t", "e", "r", "s">>

\* Array.prototype.filter(...)[0] as the id of the first item kept, 0 when
\* none is kept: the skill of a name and value (lines 702-707), the weapon
\* of a name and normal damage (lines 709-714)
FirstId(ids) == IF ids = {} THEN 0 ELSE Least(ids)

SkillId(npc, skill) ==
  FirstId({i \in DOMAIN npc : /\ npc[i].item.name = skill.name
                              /\ npc[i].item.type = "skill"
                              /\ npc[i].item.value = skill.value})
WeaponId(npc, attack) ==
  FirstId({i \in DOMAIN npc : /\ npc[i].item.name = attack.name
                              /\ npc[i].item.type = "weapon"
                              /\ npc[i].item.damage = attack.damage})

NoLast == [null |-> TRUE, id |-> 0]

\* lines 715-721: the weapon is tied to the skill when both are found
Link(last, weapon, rest) ==
  [updates |-> (IF last.id # 0 /\ weapon # 0
                THEN <<[id |-> weapon, main |-> last.id]>>
                ELSE << >>) \o rest.updates,
   raised |-> rest.raised]

RECURSIVE LinkUpdates(_, _, _, _)

\* lines 709-721: reading [0] of null raises
LinkWeapon(npc, pairs, k, last) ==
  IF last.null THEN [updates |-> << >>, raised |-> TRUE]
  ELSE Link(last, WeaponId(npc, pairs[k].attack),
            LinkUpdates(npc, pairs, k + 1, last))

\* lines 700-722 from pair k on: lastWeaponSkill is renewed by a pair with a
\* skill
LinkUpdates(npc, pairs, k, lastWeaponSkill) ==
  IF k > Len(pairs) THEN [updates |-> << >>, raised |-> FALSE]
  ELSE LinkWeapon(npc, pairs, k,
                  IF pairs[k].skill.type # "false"
                  THEN [null |-> FALSE, id |-> SkillId(npc, pairs[k].skill)]
                  ELSE lastWeaponSkill)

\* updateEmbeddedDocuments: the updates in their order
RECURSIVE ApplyUpdates(_, _)
ApplyUpdates(npc, updates) ==
  IF updates = << >> THEN npc
  ELSE ApplyUpdates([npc EXCEPT ![Head(updates).id].main = Head(updates).main],
                    Tail(updates))

\* createEmbeddedDocuments: the items get their ids, no main skill yet
Embedded(items) == [i \in DOMAIN items |-> [item |-> items[i], main |-> 0]]

\* lines 723-728: the updates are made when the loop has not raised
Updated(npc, links) ==
  [npc |-> IF links.raised THEN npc ELSE ApplyUpdates(npc, links.updates),
   raised |-> links.raised]

\* lines 698-728: the actor's items with the weapons tied to their skills
LinkedTo(npc, pairs) == Updated(npc, LinkUpdates(npc, pairs, 1, NoLast))
Linked(items, pairs) == LinkedTo(Embedded(items), pairs)

\* a folder of the host; its id is its place in game.folders
Folder(name, type) == [name |-> name, type |-> type]

\* the lookup with `entry.data.name === folderName` only: a folder of
\* another type is taken for the actor folder
FindFolder_AnyType(folders) ==
  Least({i \in DOMAIN folders : folders[i].name = folderName})

\* lines 741-743: game.folders.find, 0 for undefined
FindFolder(folders) ==
  Least({i \in DOMAIN folders :
           folders[i].name = folderName /\ folders[i].type = "Actor"})

\* lines 736-759
createImportCharactersFolderIfNotExists(g) ==
  IF FindFolder(g.folders) # 0 THEN g
  ELSE [g EXCEPT !.folders = g.folders \o <<Folder(folderName, "Actor")>>]

\* lines 1093-1097: actorData and itemsData on the character
ItemsData ==
  /\ pc = "assemble"
  /\ \E data \in {itemsData(game, itemLocations, parsed)} :
       out' = [out EXCEPT !.stage = "assembled",
                          !.attacks = ListOf(parsed, "attacks"),
                          !.actor = actorData(parsed),
                          !.items = data.items,
                          !.weaponSkills = data.weaponSkills]
  /\ parsed' = ClearIds(parsed)
  /\ pc' = "assembled"
  /\ UNCHANGED <<imports, input, lang, keys, regEx, mode, text, run, pl, cb, sk, warnings, written,
                 matched, base, rerun, call, game, itemLocations>>

\* lines 1099-1101: inputs.testMode is true
ReturnCharacterData ==
  /\ pc = "assembled"
  /\ out' = [out EXCEPT !.stage = "returned"]
  /\ pc' = "done"
  /\ UNCHANGED <<imports, input, lang, keys, regEx, mode, text, parsed, run, pl, cb, sk, warnings,
                 written, matched, base, rerun, call, game, itemLocations>>

\* lines 635-730
CreateEntity ==
  /\ pc = "assembled"
  /\ game' = createImportCharactersFolderIfNotExists(game)
  /\ \E l \in {Linked(out.items, out.weaponSkills)} :
       out' = [out EXCEPT !.stage = "created", !.npc = l.npc, !.raised = l.raised]
  /\ pc' = "done"
  /\ UNCHANGED <<imports, input, lang, keys, regEx, mode, text, parsed, run, pl, cb, sk, warnings,
                 written, matched, base, rerun, call, itemLocations>>

\* ------------------------------------------------------------------------
\* createActor on bounded inputs
\* ------------------------------------------------------------------------

\* the pieces of a stat block: header pieces and labelled fields
FieldFragments ==
  <<<<"B", "o", "b", ",">>,
    <<"3", "4", ",", " ", "C", "o", "p", ".">>,
    <<"S", "T", "R", " ", "1", "0">>,
    <<"D", "B", " ", "+", "1", "W", "4">>,
    <<"D", "B", " ", "n", "o", "n", "e">>,
    <<"A", "r", "m", "o", "r", " ", "n", "o", "n", "e">>,
    <<"A", "t", "t", "a", "c", "k", "s", " ", "n", "o", "n", "e">>,
    <<"S", "a", "n", "L", "o", "s", "s", " ", "1", "W", "4", "/", "1", "W", "6">>>>

\* the entries of a combat section
CombatEntries ==
  <<<<"R", "i", "f", "l", "e", " ", "4", "5", "%">>,
    <<"P", "i", "s", "t", "o", "l">>,
    <<"K", "n", "i", "f", "e", " ", "3", "0", "%">>,
    <<"D", "o", "d", "g", "e", " ", "3", "0", "%">>>>

\* the most fragments of a stat block, the most entries of a combat section
MaxFields == 2
MaxEntries == 2

RECURSIVE Join(_, _)
Join(pieces, sep) ==
  IF pieces = << >> THEN << >>
  ELSE IF Len(pieces) = 1 THEN pieces[1]
  ELSE pieces[1] \o sep \o Join(Tail(pieces), sep)

Picks(n, lib) == UNION {[1..k -> DOMAIN lib] : k \in 0..n}

\* stat blocks of up to MaxFields fragments, a space between two
FieldInputs ==
  {Join([i \in DOMAIN f |-> FieldFragments[f[i]]], <<" ">>) :
     f \in Picks(MaxFields, FieldFragments)}

\* a characteristic at the start, so that the block has no header
combatPrefix == <<"S", "T", "R", " ", "1", "0", "\n">> \o Word.combat \o <<"\n">>

\* combat sections of up to MaxEntries entries, all on a line of their own
\* or all on one line
CombatInputs ==
  {combatPrefix \o Join([i \in DOMAIN f |-> CombatEntries[f[i]]], sep) :
     f \in Picks(MaxEntries, CombatEntries), sep \in {<<",", " ">>, <<"\n">>}}

\* the combat text of the carry-over example
exampleCombat == combatPrefix \o <<"R", "i", "f", "l", "e", " ", "4", "5", "%", ",", " ", "P", "i", "s", "t", "o", "l", ",", " ", "K", "n", "i", "f", "e", " ", "3", "0", "%">>
\* a weapon named twice: the second time it takes the percentage carried
\* over from the knife
repeatedCombat == combatPrefix \o <<"P", "i", "s", "t", "o", "l", " ", "4", "5", "%", ",", " ", "K", "n", "i", "f", "e", " ", "3", "0", "%", ",", " ", "P", "i", "s", "t", "o", "l">>
\* a block with all the sections, and one whose combat section has no header
sampleSections ==
  <<"B", "o", "b", ",", " ", "3", "4", ",", " ", "C", "o", "p", ".", " ", "S", "T", "R", " ", "1", "2", "\n", "S", "k", "i", "l", "l", "s", ":", " ", "S", "p", "o", "t", " ", "5", "0", "%", ",", " ", "R", "i", "f", "l", "e", " ", "2", "5", "%", ".", "\n", "L", "a", "n", "g", "u", "a", "g", "e", "s", ":", " ", "L", "a", "t", "i", "n", " ", "3", "0", "%", "\n", "S", "p", "e", "l", "l", "s", ":", " ", "S", "u", "m", "m", "o", "n", " ", "(", "1", " ", "p", "o", "i", "n", "t", ",", " ", "2", " ", "r", "o", "u", "n", "d", "s", ")", ",", " ", "B", "i", "n", "d">>
sampleBrawl == <<"S", "T", "R", " ", "1", "0", "\n", "B", "r", "a", "w", "l", " ", "5", "0", "%", ",", " ", "d", "a", "m", "a", "g", "e", " ", "1", "D", "3", "+", "D", "B">>
SampleInputs == {exampleCombat, repeatedCombat, sampleSections, sampleBrawl}

\* a combat span that is neither a dodge nor a weapon and whose first line
\* ends with a carriage return: no branch of the loop takes anything
stuckCombat == combatPrefix \o <<"1", "\r", "2", "\n", "3">>
\* a shotgun with three damages, a weapon with two and one with four, and a
\* damage with half the damage bonus and the damage bonus
shotgunCombat == combatPrefix \o <<"S", "h", "o", "t", "g", "u", "n", " ", "4", "0", "%", ",", " ", "d", "a", "m", "a", "g", "e", " ", "4", "D", "6", "/", "2", "D", "6", "/", "1", "D", "6", "\n", "C", "l", "u", "b", " ", "3", "0", "%", ",", " ", "d", "a", "m", "a", "g", "e", " ", "1", "D", "6", "/", "1", "D", "3", "\n", "A", "x", "e", " ", "2", "0", "%", ",", " ", "d", "a", "m", "a", "g", "e", " ", "1", "/", "2", "/", "3", "/", "4">>
halfDbCombat == combatPrefix \o <<"K", "i", "c", "k", " ", "4", "0", "%", ",", " ", "d", "a", "m", "a", "g", "e", " ", "1", "D", "6", "+", "h", "a", "l", "f", "+", "D", "B">>

\* a skills span of n entries
RECURSIVE SkillEntries(_)
SkillEntries(n) ==
  IF n = 0 THEN << >> ELSE <<"A", "1", " ">> \o SkillEntries(n - 1)
skillsPrefix == <<"S", "T", "R", " ", "1", "0", "\n">> \o Word.skills \o <<":", " ">>

\* spans that use up the loop budget, or end one round before it
LoopInputs ==
  {stuckCombat, shotgunCombat, halfDbCombat,
   skillsPrefix \o SkillEntries(MaxLoops - 2),
   skillsPrefix \o SkillEntries(MaxLoops - 1),
   skillsPrefix \o SkillEntries(MaxLoops + 1)}

\* spells spans: the list of the design document, a parenthetical within a
\* parenthetical, and a comma that opens a parenthetical
spellsPrefix == <<"S", "T", "R", " ", "1", "0", "\n">> \o Word.spells \o <<":", " ">>
exampleSpells == spellsPrefix \o <<"C", "o", "n", "t", "a", "c", "t", " ", "D", "e", "i", "t", "y", " ", "(", "1", " ", "m", "a", "g", "i", "c", " ", "p", "o", "i", "n", "t", ")", ",", " ", "S", "u", "m", "m", "o", "n", ",", " ", "B", "i", "n", "d", " ", "M", "o", "n", "s", "t", "e", "r">>
nestedSpells == spellsPrefix \o <<"C", "a", "l", "l", " ", "(", "a", " ", "(", "b", ")", " ", "c", ",", " ", "d", ")", ",", " ", "B", "i", "n", "d">>
openingSpells == spellsPrefix \o <<"C", "a", "l", "l", " ", "(", ",", " ", "d", ")", ",", " ", "B", "i", "n", "d">>
SpellInputs == {exampleSpells, nestedSpells, openingSpells}

\* a combat span whose first entry states no percentage, and a text with two
\* combat spans of which the second begins with such an entry
bareFirstCombat == combatPrefix \o <<"P", "i", "s", "t", "o", "l", "\n", "K", "n", "i", "f", "e", " ", "3", "0", "%", ",", " ", "C", "l", "u", "b">>
twoSpans == combatPrefix \o <<"K", "n", "i", "f", "e", " ", "3", "0", "%", "\n">> \o Word.combat \o <<"\n", "P", "i", "s", "t", "o", "l", "\n", "C", "l", "u", "b", " ", "2", "0", "%", ",", " ", "A", "x", "e">>
AnchorInputs == {bareFirstCombat, twoSpans}

\* the host: the item directory, the packs, the actor folders
EmptyGame == [items |-> << >>, packs |-> << >>, folders |-> << >>]
RifleGame ==
  [items |-> <<CatalogItem(SkillName.rifle, "skill", TRUE, 25)>>,
   packs |-> <<Pack("Item", "world", <<CatalogItem(SkillName.handgun, "skill", TRUE, 20)>>)>>,
   folders |-> <<Folder(folderName, "Actor")>>]
Games == {EmptyGame, RifleGame}

\* the inputs of createActor: text, lang, convertFrom6E, source, and the host
Scenario(t, l, m, src, g) == [text |-> t, lang |-> l, mode |-> m, source |-> src, game |-> g]
Scenarios ==
  {Scenario(t, l, "coc-guess", <<"i">>, EmptyGame) : t \in FieldInputs, l \in Languages}
  \cup {Scenario(t, "en", "coc-7e", <<"i">>, g) : t \in CombatInputs, g \in Games}
  \cup {Scenario(t, l, m, <<"i", "w">>, RifleGame) :
          t \in SampleInputs, l \in Languages, m \in Modes}
  \cup {Scenario(t, "en", "coc-7e", <<"i">>, EmptyGame) :
          t \in LoopInputs \cup SpellInputs \cup AnchorInputs}

\* a new importer (lines 10-13) whose createActor is called (lines 1075-1078)
Started(sc) ==
  /\ input = sc.text /\ lang = sc.lang /\ mode = sc.mode
  /\ keys = getKeys(sc.lang) /\ regEx = getRegularExpressions(sc.lang)
  /\ itemLocations = sc.source /\ game = sc.game
  /\ text = << >> /\ parsed = EmptyObject /\ pc = "start" /\ run = 1
  /\ pl = NoLocals /\ cb = NoCombat /\ sk = NoSkills /\ warnings = << >>
  /\ written = {} /\ matched = {} /\ base = EmptyObject /\ rerun = FALSE
  /\ call = NoCall /\ out = NoOut /\ imports = << >>

Init == \E sc \in Scenarios : Started(sc)

\* the leftover of a finished parseCharacter, the buffer or the notes made
\* of it, is given to parseCharacter of a new importer
Rerun ==
  /\ pc = "parsed" /\ ~rerun /\ run = 1
  /\ input' \in {text, parsed["gmnotes"].s}
  /\ text' = << >> /\ parsed' = EmptyObject /\ pc' = "start"
  /\ pl' = NoLocals /\ cb' = NoCombat /\ sk' = NoSkills
  /\ written' = {} /\ matched' = {} /\ base' = EmptyObject /\ rerun' = TRUE
  /\ UNCHANGED <<imports, lang, keys, regEx, mode, run, warnings, call, game, itemLocations, out>>

ParseCharacter ==
  \/ ParseStart \/ ParseCore \/ ParseHeader \/ ParseAgeSplit
  \/ ParseDb \/ ParseDbDefault \/ ParseDbRoll \/ ParseBuild
  \/ ParseArmor \/ ParseArmorDefault \/ ParseMov \/ ParseLck
  \/ ParseSanLoss \/ ParseSanLossRoll
  \/ ParseAttacksPerRound \/ ParseAttacksPerRoundDefault
  \/ ParseCombatHeader \/ ParseSplit \/ ParseSection \/ ParseNotes
  \/ CombatStep \/ CombatEnd \/ SkillsStep \/ SkillsEnd \/ ProcessSpells

CreateActor ==
  \/ ParseCharacter
  \/ CreateActorConvert \/ ItemsData \/ ReturnCharacterData \/ CreateEntity

Next == CreateActor \/ Rerun

Spec == Init /\ [][Next]_vars

\* ------------------------------------------------------------------------
\* The same importer used again
\* ------------------------------------------------------------------------

\* the texts given to an importer that is used more than once
ReuseTexts ==
  {exampleCombat, sampleSections,
   <<"B", "o", "b", ",", " ", "S", "T", "R", " ", "1", "0", " ", "D", "B", " ", "+", "1", "W", "4">>,
   <<"A", "r", "m", "o", "r", " ", "2">>}

\* the most invocations of parseCharacter on one importer
MaxRuns == 2

InitReuse ==
  \E t \in ReuseTexts :
    Started(Scenario(t, "en", "coc-guess", <<"i", "w">>, RifleGame))

\* parseCharacter is called again on the importer whose parseCharacter has
\* returned: lines 377-385 set this.text and min, and this.parsed is the
\* object the constructor made (line 12)
Reinvoke ==
  /\ pc = "parsed" /\ run < MaxRuns
  /\ input' \in ReuseTexts
  /\ run' = run + 1
  /\ base' = parsed
  /\ written' = {} /\ matched' = {}
  /\ pl' = NoLocals /\ cb' = NoCombat /\ sk' = NoSkills
  /\ pc' = "start"
  /\ UNCHANGED <<imports, lang, keys, regEx, mode, text, parsed, warnings, rerun, call, game,
                 itemLocations, out>>

NextReuse == CreateActor \/ Reinvoke

SpecReuse == InitReuse /\ [][NextReuse]_vars

\* ------------------------------------------------------------------------
\* check called on its own
\* ------------------------------------------------------------------------

CheckTexts ==
  {<< >>,
   <<"B", "o", "b", ",", " ", "S", "T", "R", " ", "1", "0", " ", "D", "B", " ", "n", "o", "n", "e">>,
   <<"S", "T", "R", " ", "1", "0", " ", "S", "T", "R", " ", "1", "0">>,
   <<"P", "i", "s", "t", "o", "l", ",", " ", "R", "i", "f", "l", "e", " ", "4", "5", "%">>}

\* options.text: not given, or a span of the caller
CheckSpans ==
  {NoText, TextArg(<<" ", " ">>), TextArg(<<"S", "T", "R", " ", "1", "0">>),
   TextArg(<<"S", "T", "R", " ", "7">>), TextArg(<<"R", "i", "f", "l", "e", " ", "4", "5", "%">>)}

\* a template with one named capture, the anchored one, one with an optional
\* capture, two lexical keys, and a key that is in neither set
CheckKeys == {"str", "name", "weapon", "dbNone", "rifle", "nokey"}

CheckOptions ==
  [removeFromText : BOOLEAN, saveKeys : BOOLEAN, type : {asString, asNumber},
   text : CheckSpans, requiredGroup : {"", "percentage"}]

CheckRecords == {EmptyObject, Put(EmptyObject, "str", Num(7))}

InitCheck ==
  /\ input = << >> /\ mode = "coc-7e"
  /\ \E l \in Languages :
       lang = l /\ keys = getKeys(l) /\ regEx = getRegularExpressions(l)
  /\ itemLocations = <<"i">> /\ game = EmptyGame
  /\ text \in CheckTexts /\ parsed \in CheckRecords /\ pc = "check" /\ run = 1
  /\ pl = NoLocals /\ cb = NoCombat /\ sk = NoSkills /\ warnings = << >>
  /\ written = {} /\ matched = {} /\ base = EmptyObject /\ rerun = FALSE
  /\ call = NoCall /\ out = NoOut /\ imports = << >>

\* one call of check; call keeps what the call was given and how it ended
CheckCall ==
  /\ pc = "check"
  /\ \E regExKey \in CheckKeys, o \in CheckOptions :
     \E c \in {check(text, parsed, regExKey, o)} :
       /\ text' = c.text
       /\ parsed' = c.parsed
       /\ call' = [key |-> regExKey, options |-> o, text |-> text,
                   parsed |-> parsed,
                   returned |-> IF c.raised THEN "raised"
                                ELSE IF c.output.matched THEN "groups"
                                ELSE "false"]
  /\ pc' = "checked"
  /\ UNCHANGED <<imports, input, lang, keys, regEx, mode, run, pl, cb, sk, warnings, written, matched,
                 base, rerun, game, itemLocations, out>>

NextCheck == CheckCall

SpecCheck == InitCheck /\ [][NextCheck]_vars

\* ------------------------------------------------------------------------
\* convert7E on bounded records
\* ------------------------------------------------------------------------

\* the greatest characteristic and the greatest education of a record
MaxCharacteristic == 31
MaxEdu == 28

CharacteristicValues == {15, MaxCharacteristic - 1, MaxCharacteristic}
DbValues == {minus1d4, minus1d6, <<"+", "1", "D", "4">>, <<"0">>}

\* a record as parseCharacter returns it: a name, a sanity, some of the
\* seven characteristics, maybe an education, maybe a damage bonus
ConvertRecord(ks, v, edu, db) ==
  [key \in {"name", "san"} \cup ks
                \cup (IF edu >= 0 THEN {"edu"} ELSE {})
                \cup (IF db # << >> THEN {"db"} ELSE {}) |->
     IF key = "name" THEN Str(UnnamedCharacter)
     ELSE IF key = "san" THEN Num(45)
     ELSE IF key = "edu" THEN Num(edu)
     ELSE IF key = "db" THEN Str(db)
     ELSE Num(v)]

ConvertRecords ==
  {ConvertRecord(ks, v, edu, db) :
     ks \in SUBSET Multiplied, v \in CharacteristicValues,
     edu \in (0 - 1)..MaxEdu, db \in DbValues \cup {<< >>}}

InitConvert ==
  /\ input = << >> /\ lang = "en" /\ mode \in Modes
  /\ keys = getKeys("en") /\ regEx = getRegularExpressions("en")
  /\ itemLocations = <<"i">> /\ game = EmptyGame
  /\ text = << >> /\ parsed \in ConvertRecords /\ pc = "parsed" /\ run = 1
  /\ pl = NoLocals /\ cb = NoCombat /\ sk = NoSkills /\ warnings = << >>
  /\ written = {} /\ matched = {} /\ base = EmptyObject /\ rerun = FALSE
  /\ call = NoCall /\ out = NoOut /\ imports = << >>

NextConvert == CreateActorConvert

SpecConvert == InitConvert /\ [][NextConvert]_vars

\* ------------------------------------------------------------------------
\* guessItem called on its own
\* ------------------------------------------------------------------------

handgunUpper == <<"H", "A", "N", "D", "G", "U", "N">>

\* the sources of a host: the item directory, a world compendium, a module
\* compendium and a compendium of the system, each with a Handgun skill of a
\* value of its own; the directory has a skill that is not a combat skill
\* before it
DirectoryItems ==
  <<CatalogItem(handgunUpper, "skill", FALSE, 11),
    CatalogItem(SkillName.handgun, "skill", TRUE, 10)>>
WorldPack == Pack("Item", "world", <<CatalogItem(SkillName.handgun, "skill", TRUE, 20)>>)
ModulePack == Pack("Item", "module", <<CatalogItem(SkillName.handgun, "skill", TRUE, 30)>>)
SystemPack == Pack("Item", "CoC7", <<CatalogItem(SkillName.handgun, "skill", TRUE, 40)>>)
ActorPack == Pack("Actor", "world", <<CatalogItem(SkillName.handgun, "skill", TRUE, 50)>>)
AllPacks == <<ActorPack, SystemPack, ModulePack, WorldPack>>

\* the members of a sequence that are in a set, in their order
RECURSIVE Among(_, _)
Among(s, keep) ==
  IF s = << >> THEN << >>
  ELSE (IF Head(s) \in keep THEN <<Head(s)>> ELSE << >>) \o Among(Tail(s), keep)

GuessGames ==
  {[items |-> ds, packs |-> Among(AllPacks, ps), folders |-> << >>] :
     ds \in {<< >>, DirectoryItems},
     ps \in SUBSET {ActorPack, SystemPack, ModulePack, WorldPack}}

\* the most locations in this.itemLocations
MaxLocations == 2
LocationLetters == <<"i", "w", "m", "s">>
GuessLocations ==
  {[i \in DOMAIN f |-> LocationLetters[f[i]]] : f \in Picks(MaxLocations, LocationLetters)}

GuessNames == {SkillName.handgun, handgunUpper, SkillName.rifle}

InitGuess ==
  /\ input = << >> /\ lang = "en" /\ mode = "coc-7e"
  /\ keys = getKeys("en") /\ regEx = getRegularExpressions("en")
  /\ itemLocations \in GuessLocations /\ game \in GuessGames
  /\ text = << >> /\ parsed = EmptyObject /\ pc = "guess" /\ run = 1
  /\ pl = NoLocals /\ cb = NoCombat /\ sk = NoSkills /\ warnings = << >>
  /\ written = {} /\ matched = {} /\ base = EmptyObject /\ rerun = FALSE
  /\ call = NoCall /\ out = NoOut /\ imports = << >>

\* one call of guessItem (lines 837-881); call keeps what it was given and
\* what it returned
GuessItem ==
  /\ pc = "guess"
  /\ \E type \in {"skill", "spell"}, name \in GuessNames,
        combat \in {"null", "true", "false"} :
       call' = [key |-> "guessItem", type |-> type, name |-> name,
                combat |-> combat,
                returned |-> guessItem(game, itemLocations, type, name, combat)]
  /\ pc' = "guessed"
  /\ UNCHANGED <<imports, input, lang, keys, regEx, mode, text, parsed, run, pl, cb, sk,
                 warnings, written, matched, base, rerun, game, itemLocations,
                 out>>

NextGuess == GuessItem

SpecGuess == InitGuess /\ [][NextGuess]_vars

\* ------------------------------------------------------------------------
\* Properties of guessItem (under SpecGuess)
\* ------------------------------------------------------------------------

\* the documents of the packs of items that a letter stands for: w the
\* world's, m those of the modules, s those of the system
RECURSIVE DocumentsOf(_, _)
DocumentsOf(packs, letter) ==
  IF packs = << >> THEN << >>
  ELSE (IF /\ Head(packs).entity = "Item"
           /\ \/ letter = "w" /\ Head(packs).package = "world"
              \/ letter = "m" /\ Head(packs).package \notin {"world", "CoC7"}
              \/ letter = "s" /\ Head(packs).package = "CoC7"
        THEN Head(packs).documents ELSE << >>)
       \o DocumentsOf(Tail(packs), letter)

\* the items of the sources the locations select, in the order of the
\* locations
RECURSIVE Selected(_, _)
Selected(g, locations) ==
  IF locations = << >> THEN << >>
  ELSE (IF Head(locations) = "i" THEN g.items
        ELSE DocumentsOf(g.packs, Head(locations)))
       \o Selected(g, Tail(locations))

\* the item is of the type and the name asked for, whatever the case of the
\* name, and of the combat flag when one is given
Asked(item, c) ==
  /\ item.type = c.type
  /\ toLowerCase(item.name) = toLowerCase(c.name)
  /\ (c.combat # "null" => item.combat = (c.combat = "true"))

\* the first item asked for among the items, nothing when there is none
FirstAsked(items, c) ==
  FirstFound(items, {i \in DOMAIN items : Asked(items[i], c)})

\* C16: guessItem goes through the letters of itemLocations from the first
\* to the last, i standing for the item directory, w for the world
\* compendiums, m for the module compendiums and s for the system
\* compendiums, and returns the first item of those sources, in that order,
\* of the type and the name asked for (whatever the case of the name) and of
\* the combat flag asked for when one is given; it returns nothing when no
\* selected source holds such an item.
C16_LookupOrder ==
  pc = "guessed" =>
    call.returned = FirstAsked(Selected(game, itemLocations), call)

\* ------------------------------------------------------------------------
\* createEntity of several imports on one host
\* ------------------------------------------------------------------------

\* the most imports on the host
MaxImports == 3
Importers == 1..MaxImports

\* the folders of the host before the imports: none, the actor folder, a
\* folder of that name that is not an actor folder, and an actor folder of
\* another name
otherName == <<"N", "P", "C", "s">>
FolderSets ==
  {<< >>,
   <<Folder(folderName, "Actor")>>,
   <<Folder(folderName, "Item")>>,
   <<Folder(otherName, "Actor")>>,
   <<Folder(folderName, "Item"), Folder(otherName, "Actor"),
     Folder(folderName, "Actor")>>}

\* an import that has not called createEntity yet. found is what the lookup
\* returned, made the folder the import created, folder the folder of its
\* actor (0: none); seen is the number of folders of the host at the lookup
\* and alone whether no other import was under way then
NoImport ==
  [pc |-> "start", found |-> 0, made |-> 0, folder |-> 0, seen |-> 0,
   alone |-> FALSE]

InitFolder ==
  /\ input = << >> /\ lang = "en" /\ mode = "coc-7e"
  /\ keys = getKeys("en") /\ regEx = getRegularExpressions("en")
  /\ itemLocations = <<"i">>
  /\ \E fs \in FolderSets : game = [EmptyGame EXCEPT !.folders = fs]
  /\ text = << >> /\ parsed = EmptyObject /\ pc = "imports" /\ run = 1
  /\ pl = NoLocals /\ cb = NoCombat /\ sk = NoSkills /\ warnings = << >>
  /\ written = {} /\ matched = {} /\ base = EmptyObject /\ rerun = FALSE
  /\ call = NoCall /\ out = NoOut
  /\ imports = [i \in Importers |-> NoImport]

UnderWay(i) == imports[i].pc \notin {"start", "done"}

\* the importers' own state takes no part in createEntity's folder steps
OneImporter ==
  UNCHANGED <<input, lang, keys, regEx, mode, text, parsed, pc, run, pl, cb,
              sk, warnings, written, matched, base, rerun, call,
              itemLocations, out>>

\* lines 737-747: the lookup, up to the await of Folder.create
Lookup(i) ==
  /\ pc = "imports" /\ imports[i].pc = "start"
  /\ imports' =
       [imports EXCEPT
          ![i] = [pc |-> IF FindFolder(game.folders) # 0 THEN "actor" ELSE "create",
                  found |-> FindFolder(game.folders),
                  made |-> 0,
                  folder |-> FindFolder(game.folders),
                  seen |-> Len(game.folders),
                  alone |-> \A j \in Importers \ {i} : ~UnderWay(j)]]
  /\ UNCHANGED game /\ OneImporter

\* lines 749-757: Folder.create has resolved, the folder is in game.folders
FolderCreate(i) ==
  /\ pc = "imports" /\ imports[i].pc = "create"
  /\ game' = [game EXCEPT !.folders = game.folders \o <<Folder(folderName, "Actor")>>]
  /\ imports' = [imports EXCEPT ![i].pc = "actor",
                                ![i].made = Len(game.folders) + 1,
                                ![i].folder = Len(game.folders) + 1]
  /\ OneImporter

\* lines 638-647: the actor is created in the folder
ActorCreate(i) ==
  /\ pc = "imports" /\ imports[i].pc = "actor"
  /\ imports' = [imports EXCEPT ![i].pc = "done"]
  /\ UNCHANGED game /\ OneImporter

NextFolder ==
  \E i \in Importers : Lookup(i) \/ FolderCreate(i) \/ ActorCreate(i)

SpecFolder == InitFolder /\ [][NextFolder]_vars

\* ------------------------------------------------------------------------
\* Properties of the folder of the imports (under SpecFolder)
\* ------------------------------------------------------------------------

\* the actor folders of the name
ImportFolders ==
  {f \in DOMAIN game.folders :
     game.folders[f].name = folderName /\ game.folders[f].type = "Actor"}

\* no import has called createEntity while another was under way
NonOverlapping == \A i \in Importers : imports[i].pc # "start" => imports[i].alone

\* both imports looked the folder up before the folder of the other was there
Raced(i, j) ==
  /\ imports[i].seen < imports[j].made
  /\ imports[j].seen < imports[i].made

\* C17: an import creates the folder only when its lookup found no actor
\* folder of the name; when no two imports overlap, there is one such folder
\* once an import has got past the creation, and the actor of every import
\* is filed in it; and two imports have both created a folder only when
\* each of them made its lookup before the creation of the other had
\* completed.
C17_ImportedCharactersFolder ==
  /\ \A i \in Importers : imports[i].made # 0 => imports[i].found = 0
  /\ NonOverlapping =>
       \A i \in Importers :
          imports[i].pc \in {"actor", "done"} =>
            ImportFolders = {imports[i].folder}
  /\ \A i, j \in Importers :
        i # j /\ imports[i].made # 0 /\ imports[j].made # 0 => Raced(i, j)

\* the imports have run one after the other on a host that had a folder of
\* the name that is not an actor folder: the first has made the folder and
\* all are filed in it
C17_Witness ==
  /\ NonOverlapping
  /\ \A i \in Importers : imports[i].pc = "done" /\ imports[i].folder = 2
  /\ game.folders = <<Folder(folderName, "Item"), Folder(folderName, "Actor")>>

\* ------------------------------------------------------------------------
\* Properties of convert7E (under SpecConvert)
\* ------------------------------------------------------------------------

\* the record has just been converted: out.character is the record before
Converted == pc = "assemble" /\ out.stage = "converted"

\* the education of the 7th edition for one of the 6th
EduOf(e) == IF e <= 18 THEN 5 * e ELSE IF e <= 26 THEN e + 72 ELSE 99

\* C2: convert7E is defined on every record; each of str, con, siz, dex, app,
\* int, pow that is present is multiplied by 5; an education e becomes 5*e
\* when e <= 18, a value of 91..98 that grows by one with e when
\* 19 <= e <= 26, and 99 when e >= 27; the damage bonus '-1d4' becomes -1
\* and '-1d6' becomes -2; every other damage bonus and every other field is
\* as it was.
C2_Convert7E ==
  Converted =>
    LET c == out.character
    IN  /\ DOMAIN parsed = DOMAIN c
        /\ \A key \in DOMAIN c :
             IF key \in Multiplied THEN parsed[key] = Num(5 * c[key].n)
             ELSE IF key = "edu"
             THEN /\ parsed[key] = Num(EduOf(c[key].n))
                  /\ (c[key].n \in 19..26 =>
                        parsed[key].n \in 91..98 /\ parsed[key].n - 91 = c[key].n - 19)
             ELSE IF key = "db"
             THEN parsed[key] = (IF c[key].s = minus1d4 THEN Num(0 - 1)
                                 ELSE IF c[key].s = minus1d6 THEN Num(0 - 2)
                                 ELSE c[key])
             ELSE parsed[key] = c[key]

\* a converted record with all seven characteristics, an education of the
\* middle tier at its upper end, and the damage bonus -1d6
C2_Witness ==
  /\ Converted
  /\ Multiplied \subseteq DOMAIN out.character
  /\ Has(out.character, "edu") /\ out.character["edu"] = Num(26)
  /\ Has(out.character, "db") /\ out.character["db"] = Str(minus1d6)
  /\ parsed["edu"] = Num(98) /\ parsed["db"] = Num(0 - 2)


\* C3: convert7E turns a characteristic of 15 into 75, an education of 20
\* into 92 (20 + 72, the middle tier), an education of 27 into 99, and the
\* damage bonus "-1d4" into -1.
C3_ReferenceValues ==
  Converted =>
    LET c == out.character
    IN  /\ \A key \in Multiplied \cap DOMAIN c :
             c[key] = Num(15) => parsed[key] = Num(75)
        /\ (Has(c, "edu") /\ c["edu"] = Num(20) => parsed["edu"] = Num(92))
        /\ (Has(c, "edu") /\ c["edu"] = Num(27) => parsed["edu"] = Num(99))
        /\ (Has(c, "db") /\ c["db"] = Str(minus1d4) => parsed["db"] = Num(0 - 1))

\* C3 as stated: an education of 20 becomes 100
C3_Education20Is100 ==
  Converted =>
    LET c == out.character
    IN  /\ \A key \in Multiplied \cap DOMAIN c :
             c[key] = Num(15) => parsed[key] = Num(75)
        /\ (Has(c, "edu") /\ c["edu"] = Num(20) => parsed["edu"] = Num(100))
        /\ (Has(c, "edu") /\ c["edu"] = Num(27) => parsed["edu"] = Num(99))
        /\ (Has(c, "db") /\ c["db"] = Str(minus1d4) => parsed["db"] = Num(0 - 1))

\* a converted record that had a strength of 15, an education of 20 and the
\* damage bonus -1d4
C3_Witness ==
  /\ Converted
  /\ Has(out.character, "str") /\ out.character["str"] = Num(15)
  /\ Has(out.character, "edu") /\ out.character["edu"] = Num(20)
  /\ Has(out.character, "db") /\ out.character["db"] = Str(minus1d4)
  /\ parsed["str"] = Num(75) /\ parsed["edu"] = Num(92)

\* a characteristic of the record, education included, is above 29
Above29(character) ==
  \E key \in Characteristics :
    /\ Has(character, key)
    /\ ~NumberOf(character[key]).nan
    /\ NumberOf(character[key]).n > 29

\* the mode forces the conversion, or it is to be guessed and no
\* characteristic of the record is above 29
ToBeConverted(m, character) ==
  m = "coc-convert" \/ (m = "coc-guess" /\ ~Above29(character))

\* C15: createActor applies convert7E to the parsed record once when the
\* mode is 'coc-convert', once when the mode is 'coc-guess' and no present
\* characteristic among str, con, siz, dex, app, int, pow and edu is above
\* 29, and not at all otherwise.
C15_ConversionDecision ==
  /\ out.converted <= 1
  /\ pc = "assemble" =>
       out.converted = (IF ToBeConverted(mode, out.character) THEN 1 ELSE 0)

\* ------------------------------------------------------------------------
\* Properties of check (under SpecCheck)
\* ------------------------------------------------------------------------

\* a call of check has ended: call.text and call.parsed are the buffer and
\* the record before it
Called == call.returned # "none"

\* what exec gave the call
ExecOf(c) ==
  Exec(Pattern(c.key), IF c.options.text.given THEN c.options.text.s ELSE c.text)

\* C4: after a call of check, whatever its key and options, on the buffer or
\* on a span of the caller, with a match or without, the buffer is not
\* longer than it was before the call.
C4_MonotonicShrinkage == Called => Len(text) <= Len(call.text)

\* a match of white space only, on a span of the caller, removed from a
\* buffer that is not empty: the line break put in front is trimmed away
C4_Witness ==
  /\ call.returned = "groups"
  /\ call.options.removeFromText
  /\ call.key = "name"
  /\ call.options.text = TextArg(<<" ", " ">>)
  /\ call.text # << >>
  /\ Len(text) = Len(call.text)

\* C10: when check returns false, because the key is in neither set, the
\* pattern does not match, or the required group is absent from the match,
\* the buffer and the record are what they were before the call, whatever
\* removeFromText and saveKeys are.
C10_FalseChangesNothing ==
  call.returned = "false" => text = call.text /\ parsed = call.parsed

\* false for a weapon that matched on the buffer without the percentage that
\* was required, with removeFromText and saveKeys on
C10_Witness ==
  /\ call.returned = "false"
  /\ call.key = "weapon"
  /\ call.options.requiredGroup = "percentage"
  /\ call.options.removeFromText /\ call.options.saveKeys
  /\ ~call.options.text.given
  /\ ExecOf(call).ok
  /\ text = call.text

\* the named captures of the call's expression
NamesOf(c) == GroupNames(Pattern(c.key).alts)

\* a named capture that check does not store: it took no part in the match,
\* or the call asks for numbers and it is not one
NotStored(m, k, type) ==
  ~m.groups[k].def \/ (type = asNumber /\ ToNumber(m.groups[k].s).nan)

\* the field of the key is what it was before the call
FieldKept(k) ==
  /\ Has(parsed, k) <=> Has(call.parsed, k)
  /\ Has(parsed, k) => parsed[k] = call.parsed[k]

\* C11: no call of check raises, whatever the template and the options, a
\* template without a named capture with saveKeys on included; and when
\* check saves the captures of a match, a named capture that took no part in
\* the match, or that is not a number when numbers are asked for, leaves its
\* field of the record as it was.
C11_NoExceptionPath ==
  /\ Called => call.returned # "raised"
  /\ call.returned = "groups" /\ call.options.saveKeys =>
       \A k \in NamesOf(call) :
          NotStored(ExecOf(call), k, call.options.type) => FieldKept(k)

\* ------------------------------------------------------------------------
\* Properties of parseCharacter (under Spec: one invocation on an importer)
\* ------------------------------------------------------------------------

\* the statements of parseCharacter after the header has been read
AfterHeader ==
  {"ageSplit", "db", "dbDefault", "dbRoll", "build", "armor", "armorDefault",
   "mov", "lck", "sanLoss", "sanLossRoll", "attacksPerRound",
   "attacksPerRoundDefault", "combatHeader", "split", "section", "combat",
   "combatEnd", "skills", "skillsEnd", "spells", "parsed"}
InParseCharacter == {"start", "core", "header"} \cup (AfterHeader \ {"parsed"})

Zero == Str(<<"0">>)

\* the field of the key did not match, or matched with a value that matches
\* the none key
Absent(field) == field \notin matched
NoneValue(none) == none \in matched

NoCoreField == matched \cap CoreKeySet = {}
NameFromText == Has(parsed, "name") /\ "name" \in matched
HeaderField == NameFromText \/ Has(parsed, "age") \/ Has(parsed, "occupation")

Reassigned(key) ==
  /\ pc \in InParseCharacter /\ run' = run /\ rerun' = rerun
  /\ Has(parsed, key) /\ Has(parsed', key) /\ parsed'[key] # parsed[key]

\* the step defaults a field that matched with a value of none to "0"
DefaultsNone(key) ==
  \/ pc = "dbDefault" /\ key = "db" /\ NoneValue("dbNone") /\ parsed'[key] = Zero
  \/ pc = "armorDefault" /\ key = "armor" /\ NoneValue("armorNone") /\ parsed'[key] = Zero
  \/ /\ pc = "attacksPerRoundDefault" /\ key = "attacksPerRound"
     /\ NoneValue("attacksPerRoundNone") /\ parsed'[key] = Zero

\* the step writes the dice of the damage bonus or of the sanity loss with
\* the letter D (lines 504 and 524)
TranslatesRoll(key) ==
  /\ \/ pc = "dbRoll" /\ key = "db"
     \/ pc = "sanLossRoll" /\ key = "sanLoss"
  /\ parsed'[key] = Str(translateRoll(parsed[key].s))

\* the step takes the age out of an occupation that starts with a number
\* (lines 481-492)
SplitsAge(key) == pc = "ageSplit" /\ key = "occupation" /\ ~Has(parsed, "age")

ScalarKeys == (TemplateNames \cup {"gmnotes"}) \ ListKeys

C5_LeftoverIsFixedPoint == rerun /\ pc = "parsed" => matched = {}

\* ------------------------------------------------------------------------
\* The percentage carried over (under Spec)
\* ------------------------------------------------------------------------

\* the percentage of the nearest attack up to k that stated one
CarriedOver(attacks, k) ==
  LET stated == {j \in 1..k : attacks[j].skill.kind = "num"}
  IN  IF stated = {} THEN 0 - 1
      ELSE attacks[CHOOSE j \in stated : \A i \in stated : i <= j].skill.n

\* the place of attack k among the items: every attack up to k is one item,
\* and so is the skill of each that stated a percentage
ItemOfAttack(attacks, k) ==
  k + Cardinality({j \in 1..k : attacks[j].skill.kind # "true"})

\* the percentage of the skill the weapon is tied to, -1 when it is tied to
\* none
TiedTo(npc, i) == IF npc[i].main = 0 THEN 0 - 1 ELSE npc[npc[i].main].item.value

\* C1: when the actor has been created, every weapon of the combat section
\* is tied to a skill whose percentage is the one the entry stated, or, for
\* an entry that stated none, the one of the nearest entry before it that
\* stated one.
C1_PercentageCarryOver ==
  out.stage = "created" /\ ~out.raised =>
    \A k \in DOMAIN out.attacks :
      TiedTo(out.npc, ItemOfAttack(out.attacks, k)) = CarriedOver(out.attacks, k)

\* ------------------------------------------------------------------------
\* The loops of the sub-parsers (under Spec)
\* ------------------------------------------------------------------------

\* what the round of processCombat that is about to run gets from check
SpanDodge == check(text, parsed, "weaponDodge", SpanOptions(Trim(cb.text), ""))
SpanWeapon ==
  check(text, parsed, "weapon",
        SpanOptions(Trim(cb.text),
                    IF cb.lastPercent.kind = "false" THEN "percentage" ELSE ""))
TakesWeapon == ~SpanDodge.output.matched /\ SpanWeapon.output.matched

\* the damage text the inner loop starts from (line 195)
DamageOf(groups) ==
  translateRoll(cleanString(IF groups["damage"].def THEN groups["damage"].s
                            ELSE << >>))

\* every pass of the inner loop (lines 234-260) that finds a term leaves a
\* damage text that is shorter
RECURSIVE PassesShorten(_, _)
RECURSIVE ShortenHalf(_, _, _)
RECURSIVE ShortenFull(_, _, _)
Shorter(damage, db, found) ==
  /\ Len(ReplaceFirst(damage, found.source, << >>)) < Len(damage)
  /\ PassesShorten(ReplaceFirst(damage, found.source, << >>), db)
PassesShorten(damage, db) == ShortenHalf(damage, db, Exec(HalfDb(db), damage))
ShortenHalf(damage, db, found) ==
  IF found.ok THEN Shorter(damage, db, found)
  ELSE ShortenFull(damage, db, Exec(FullDb(db), damage))
ShortenFull(damage, db, found) ==
  IF found.ok THEN Shorter(damage, db, found) ELSE TRUE

\* the entries of a list of the record are the first entries of the list
\* after the step
EntriesKept(key) ==
  Has(parsed, key) =>
    /\ Has(parsed', key)
    /\ Len(parsed[key].s) <= Len(parsed'[key].s)
    /\ SubSeq(parsed'[key].s, 1, Len(parsed[key].s)) = parsed[key].s

\* a round of a loop starts with budget left, takes one from it, and is
\* followed by another round only when budget is left
UsesBudget(at, l, after) ==
  pc = at =>
    /\ l.maxLoops \in 1..MaxLoops
    /\ after.maxLoops = l.maxLoops - 1
    /\ (pc' = at => after.maxLoops > 0)

\* C12: processCombat and processSkills end after at most 40 rounds of their
\* outer loop: every round starts with a budget between 1 and 40 and takes
\* one from it; every pass of the damage-bonus loop of processCombat that
\* finds a term makes the damage text shorter; and an entry of skills,
\* languages or attacks that is in the record stays in it, at its place,
\* through every step of parseCharacter, the running out of the budget
\* included.
C12_BoundedSubParsers ==
  [][/\ UsesBudget("combat", cb, cb')
     /\ UsesBudget("skills", sk, sk')
     /\ (pc = "combat" /\ TakesWeapon =>
           PassesShorten(DamageOf(SpanWeapon.output.groups), parsed["db"].s))
     /\ (pc \in InParseCharacter =>
           \A key \in {"skills", "languages", "attacks"} : EntriesKept(key))]_vars

\* the budget of processSkills has run out on a span of more than 40
\* entries: the 40 entries of the 40 rounds are in the record
C12_Witness ==
  /\ pc = "skillsEnd"
  /\ sk.maxLoops = 0
  /\ Len(parsed["skills"].s) = MaxLoops
  /\ Trim(sk.text) # << >>

\* ------------------------------------------------------------------------
\* The weapon records of processCombat (under Spec)
\* ------------------------------------------------------------------------

\* the damage text after the damage-bonus loop, for the weapon the round
\* that is about to run takes
StrippedDamage ==
  StripDb(DamageOf(SpanWeapon.output.groups), FALSE, FALSE, parsed["db"].s).damage

\* the places of the separators in a damage text
Slashes(d) == {i \in DOMAIN d : d[i] = "/"}

\* the weapon the step has appended
Appended == parsed'["attacks"].s[Len(parsed'["attacks"].s)]

\* the bands of a shotgun: the text before the first separator at 10, the
\* text between the two at 20, the text after the second at 50
ShotgunBands(weapon, d, first, second) ==
  /\ weapon.normal = [value |-> 10, damage |-> SubSeq(d, 1, first - 1)]
  /\ weapon.long = [value |-> 20, damage |-> SubSeq(d, first + 1, second - 1)]
  /\ weapon.extreme = [value |-> 50, damage |-> SubSeq(d, second + 1, Len(d))]
  /\ weapon.shotgun

\* one band at distance 0
OneBand(weapon) ==
  /\ weapon.normal.value = 0
  /\ weapon.long = [value |-> 0, damage |-> << >>]
  /\ weapon.extreme = [value |-> 0, damage |-> << >>]
  /\ ~weapon.shotgun

Bands(weapon, d, slashes) ==
  IF Cardinality(slashes) = 2
  THEN ShotgunBands(weapon, d, Least(slashes), Least(slashes \ {Least(slashes)}))
  ELSE OneBand(weapon)

\* C13: the weapon a round of processCombat appends has, when the damage
\* text left by the damage-bonus loop holds exactly two separators '/', the
\* distances 10, 20 and 50 with the three parts of the text as the damages
\* of the bands in their order, and shotgun true; with any other number of
\* separators its three distances are 0, its long and extreme damages are
\* empty, and shotgun is false.
C13_ShotgunDetection ==
  [][pc = "combat" /\ TakesWeapon =>
       Bands(Appended, StrippedDamage, Slashes(StrippedDamage))]_vars

\* a shotgun of three damages, a weapon of two and one of four are in the
\* record
C13_Witness ==
  /\ pc = "combatEnd"
  /\ Has(parsed, "attacks")
  /\ Len(parsed["attacks"].s) = 3
  /\ parsed["attacks"].s[1].shotgun
  /\ parsed["attacks"].s[1].long = [value |-> 20, damage |-> <<"2", "D", "6">>]
  /\ ~parsed["attacks"].s[2].shotgun
  /\ parsed["attacks"].s[2].normal = [value |-> 0, damage |-> <<"1", "D", "6">>]
  /\ ~parsed["attacks"].s[3].shotgun
  /\ parsed["attacks"].s[3].normal = [value |-> 0, damage |-> <<"1">>]

\* ------------------------------------------------------------------------
\* The spells of processSpells (under Spec)
\* ------------------------------------------------------------------------

\* the span processSpells splits: cut at the first sentence-ending line
\* break, its line breaks turned into spaces
SpellSpan == ReplaceRuns(FirstSentence(sk.text), {"\n", "\r"}, <<" ">>)

\* how many parentheses are open before place i of s
RECURSIVE Depth(_, _)
Depth(s, i) ==
  IF i <= 1 THEN 0
  ELSE IF s[i - 1] = "(" THEN Depth(s, i - 1) + 1
  ELSE IF s[i - 1] = ")" THEN Max(Depth(s, i - 1) - 1, 0)
  ELSE Depth(s, i - 1)

\* the commas of s that are not inside parentheses
OuterCommas(s) == {i \in DOMAIN s : s[i] = "," /\ Depth(s, i) = 0}

\* s cut at the places of cuts, from place from on
RECURSIVE CutAt(_, _, _)
CutAt(s, cuts, from) ==
  IF cuts = {} THEN <<SubSeq(s, from, Len(s))>>
  ELSE <<SubSeq(s, from, Least(cuts) - 1)>>
       \o CutAt(s, cuts \ {Least(cuts)}, Least(cuts) + 1)

\* the spells in the record
SpellsOf(o) == IF Has(o, "spells") THEN o["spells"].s ELSE << >>

\* the spells the step has appended are the cleaned pieces
AppendsPieces(pieces) ==
  /\ Len(SpellsOf(parsed')) = Len(SpellsOf(parsed)) + Len(pieces)
  /\ \A k \in DOMAIN pieces :
        SpellsOf(parsed')[Len(SpellsOf(parsed)) + k] = cleanString(pieces[k])

\* C14: processSpells splits its span (cut at the first sentence-ending line
\* break, line breaks turned into spaces) at exactly the commas that are not
\* inside parentheses: the spells appended are the cleaned pieces between
\* those commas, one more than there are such commas, and no comma inside a
\* parenthetical separates two spells.
C14_SpellSplitting ==
  [][pc = "spells" =>
       AppendsPieces(CutAt(SpellSpan, OuterCommas(SpellSpan), 1))]_vars

\* ------------------------------------------------------------------------
\* The warnings of the sub-parsers (under Spec)
\* ------------------------------------------------------------------------

\* the step gives a message to ui.notifications.warn
Warns == warnings' # warnings

\* the budget of processSkills ran out while its last round still found an
\* entry or left text in the span
SkillsExhausted ==
  sk.maxLoops = 0 /\ (sk.skill \/ Trim(sk.text) # << >>)

\* the same for processCombat: a dodge or a weapon, or text left
CombatExhausted ==
  cb.maxLoops = 0 /\ (cb.dodge \/ cb.weapon \/ Trim(cb.text) # << >>)

\* C18: processSkills and processCombat give their 'Unexpected ... text'
\* warning exactly when the budget of 40 rounds ran out while the span still
\* gave a match or still held text; a span the loop finishes on its own, such
\* as a skills span of fewer than 40 entries that are all parsed, gives no
\* warning.
C18_WarningOnlyOnExhaustion ==
  [][/\ pc = "skillsEnd" => (Warns <=> SkillsExhausted)
     /\ pc = "combatEnd" => (Warns <=> CombatExhausted)]_vars

\* ------------------------------------------------------------------------
\* The skill of the first weapon (under Spec)
\* ------------------------------------------------------------------------

\* the round of processCombat that takes the first weapon of its span
FirstOfSpan == pc = "combat" /\ cb.lastPercent.kind = "false" /\ TakesWeapon

\* the attack the round has put at the end of the attacks
Pushed == ListOf(parsed', "attacks")[Len(ListOf(parsed', "attacks"))]

\* the record as parseCharacter makes it, before itemsData takes the
\* percentages out of the attacks (line 899)
BeforeItemsData == pc \notin {"assembled", "done"}

\* the first attack of the record states a percentage
FirstStated ==
  BeforeItemsData /\ Has(parsed, "attacks") =>
    ListOf(parsed, "attacks")[1].skill.kind = "num"

\* the first pair of weaponSkills holds a skill
FirstPairHasSkill ==
  out.weaponSkills # << >> => out.weaponSkills[1].skill.type = "skill"

\* C19: the first entry of attacks in the record of parseCharacter, and the
\* first weapon of every combat span, has a number for its skill percentage
\* and never the marker true of a carried percentage; so the first pair of
\* weaponSkills holds a skill, and createEntity never reads lastWeaponSkill
\* while it is null.
C19_FirstWeaponAnchorsSkill ==
  /\ [](FirstStated /\ FirstPairHasSkill /\ ~out.raised)
  /\ [][FirstOfSpan => Pushed.skill.kind = "num"]_vars

\* C19 witness: an actor is created from a text whose combat span begins
\* with an entry without a percentage; the first pair holds a skill and the
\* last attack carried its percentage over
C19_Witness ==
  /\ out.stage = "created" /\ input \in AnchorInputs
  /\ Len(out.weaponSkills) > 1
  /\ out.attacks[1].skill.kind = "num"
  /\ out.attacks[Len(out.attacks)].skill.kind = "true"
  /\ out.weaponSkills[Len(out.weaponSkills)].skill.type = "false"

\* ------------------------------------------------------------------------
\* The importer used again (under SpecReuse)
\* ------------------------------------------------------------------------

\* C6: the record parseCharacter returns holds only fields assigned by this
\* invocation, and no list that an earlier invocation on the importer made.
C6_RecordOwnedByInvocation ==
  pc = "parsed" =>
    /\ DOMAIN parsed \subseteq written
    /\ DOMAIN base \cap DOMAIN parsed \cap ListKeys = {}

====
